---- MODULE Spec2Model ----
(***************************************************************************)
(* A model of wl-tray-bridge's message bus client, bussy                   *)
(* (src/bussy/src/lib.rs): the outgoing queue and its writer task, the     *)
(* pending-reply table, the kill cascade, signal handlers, exported        *)
(* objects and the reader task's dispatch.                                 *)
(*                                                                         *)
(* Atomicity.  The program runs bussy on a current_thread tokio runtime    *)
(* (src/src/main.rs:14): a task runs without interruption between two      *)
(* awaits, and user code runs re-entrantly inside the callbacks bussy      *)
(* invokes.  One action of the model is therefore the code of one task or  *)
(* one public operation up to and including the next callback invocation   *)
(* or await.  The user operations are enabled in every state, which covers *)
(* operations made from inside a callback.  SpecConcurrent adds a caller   *)
(* on another thread: there call_async is split at the release of the      *)
(* table mutex (lib.rs:484-492), so that the tasks and kill() may run      *)
(* between the insertion into pending_replies and the enqueue.             *)
(***************************************************************************)
EXTENDS Integers, Sequences, FiniteSets, TLC

\* Bounds of the model.
MaxSerial == 3
MaxHandlers == 2
MaxObjects == 2
MaxStrong == 2
MaxTokens == 1
MaxItems == 2
MaxGets == 2
MaxMerges == 2
MaxRefetch == 1
MaxOpens == 1
MaxLayouts == 2
MaxRevision == 1
MaxChanges == 1

Serials == 1..MaxSerial
HandlerIds == 0..(MaxHandlers - 1)
ObjectIds == 1..MaxObjects
TokenIds == 1..MaxTokens
Paths == {"/p"}
Members == {"m"}
Rules == {"sigA", "sigB"}
\* Type::MethodReturn and Type::Error; an Error stands for its three decodings
\* (NoErrorName, NoErrorBody, ErrorReply), each of which calls the callback once.
ReplyTypes == {"MethodReturn", "Error"}

VARIABLES
    killed,            \* Shared.killed
    pending_replies,   \* SharedMut.pending_replies: the serials with a callback
    queue,             \* Shared.queue: the outgoing channel read by the writer
    kill_queue,        \* Connection.kill_queue: the channel read by kill_queue()
    send_task,         \* the writer task Shared::send: "idle", "failed", "done"
    recv_task,         \* the reader task Shared::recv: "idle", "signal", "done"
    signal_handlers,   \* SharedMut.signal_handlers: ids in the table
    sh_rule,           \* SignalHandlerData.match_rule per id
    disabled,          \* SignalHandlerData.disabled per id
    sh_handle,         \* the SignalHandler handle per id: none/held/detached/dropped
    next_id,           \* the static ID counter of handle_signal
    rd_handlers,       \* the reader's local vec signal_handlers
    objects,           \* SharedMut.objects: path -> object id, 0 when absent
    weak_objects,      \* SharedMut.weak_objects: path -> object id, 0 when absent
    strong,            \* strong count of each Arc<Object>
    obj_path,          \* ObjectData.path of each object
    methods,           \* ObjectData.methods of each object
    next_obj,          \* the next object identity
    tokens,            \* the PendingReply tokens handed to method handlers
    next_serial,       \* the next serial zbus gives an outgoing message
    call,              \* the Call handle per serial: none, held, detached,
                       \*   dropped, detached_dropped (dropped after detach)
    ucall,             \* the serial of a call_async between insert and enqueue, or 0
    drain,             \* callbacks taken by kill() and not yet invoked
    wire,              \* the messages handed to the transport, in order
    issued,            \* history: the messages sent into Shared.queue, in order
    invoked,           \* history: how often each serial's callback was invoked
    result,            \* history: the last result a serial's callback got
    late_cb,           \* history: serials whose callback ran after a plain drop
    kill_taken,        \* history: serials that were in the table when kill() ran
    wire_at_kill,      \* history: Len(wire) when the connection was first killed
    post_kill,         \* history: calls whose enqueue found the killed flag set
    sig_snap,          \* history: handlers snapshotted for the current signal
    sig_log,           \* history: handlers invoked for the current signal, in order
    sh_late,           \* history: handlers invoked after their handle was dropped
    cb_after_kill,     \* history: a signal callback or method handler ran killed
    mc_last,           \* history: the last inbound method call and its outcome
    pr_done,           \* history: the numbers of replies that PendingReply tokens
                       \*   of calls expecting a reply had enqueued when dropped
    mutex,             \* whether Shared.shared, the table mutex, is held
    obj_mutex,         \* whether an ObjectData.methods / properties mutex is held
    lpc,               \* where the code that took the mutex stands: "idle",
                       \*   "locked", "methods", "mlocked", "open"
    lpath,             \* which code that is: "reply", "signal", "call", "kill",
                       \*   "send", "kill_queue", or "none"
    lcb,               \* the callbacks it took out of the tables and has to call
    cb_locked,         \* history: the paths that called a callback under a mutex
    cb_free,           \* history: the paths that called a callback with none held
    w_items,           \* watcher: DataMut.items per variant
    w_hosts,           \* watcher: DataMut.hosts per variant
    w_props,           \* watcher: the properties of the exported object, per variant
    w_emit,            \* watcher: what the last handled message sent into the queue
    w_last,            \* watcher history: the last handled message
    h_items,           \* host: Host.items, the SniItem of each identifier (0: none)
    h_gets,            \* host: the Get calls to each watcher that await their reply
    h_emit,            \* host: what the last handled message sent into the queue
    h_last,            \* host history: the last handled message or ended task
    it_status,         \* SniItem.status per item: "none" before the item exists
    it_variant,        \* SniItem.interface per item: "fdo" or "kde"
    it_task,           \* the task spawned by handle_new_item: none/spawned/done
    it_owner,          \* SniItem.owner per item: whether an owner is set
    it_handlers,       \* SniItem.signal_handlers per item: how many are held
    next_item,         \* the static IDS counter of handle_new_item, plus one
    it_removed,        \* history: the items handle_removed_item set to Removed
    it_announced,      \* history: how often Host.callback was called per item
    m_tree,            \* menu mirror: Menu.tree, the MenuTree a merge changes
    m_resp,            \* menu mirror: the layout value of a GetLayout reply
    m_delta,           \* menu mirror: what the last merge returned (Option)
    m_prev,            \* menu mirror history: the tree before the last merge
    m_count,           \* menu mirror history: how often m_resp was merged
    m_diff,            \* menu mirror: the lists of the last ItemsPropertiesUpdated
    r_items,           \* renderer: Menu.items of the tray item, by menu id
    r_expect,          \* renderer history: by menu id, the child ids in the order
                       \* of the last merged reply that had the node
    b_rev,             \* the remote menu: the revision of its layout
    b_reply,           \* the remote menu: the revision it sent in its reply to
                       \* the GetLayout of Menu::new (Option)
    b_match,           \* the bus: whether it has the session's LayoutUpdated rule
    b_routed,          \* the bus: the LayoutUpdated revisions sent on to the client
    b_lost,            \* history: the revisions emitted after the reply that the
                       \* bus had no rule for
    it_props,          \* SniItem.properties per item: the snapshot, field by field
    it_menu,           \* SniItem.menu per item: the Menu session, open or not
    c_calls,           \* the item and menu calls that await their reply
    rf_tasks,          \* the tasks spawned by the change-signal handlers
    it_refetched,      \* history: the fields (item, name) written by a re-fetch
                       \* whose Gets were sent after those of the first fetch
    om_state,          \* open_menu calls: none/no_menu/about/refresh/finished/gone
    om_cb,             \* history: how often the callback of an open_menu ran
    it_late,           \* history: owner and host callbacks made for a removed item
    it_first_menu,     \* history: the first menu_changed per item: none/initial/other
    it_removed_cb,     \* history: how often removed() was called per item
    it_failed,         \* history: the Gets of the first fetch that failed, per item
    it_menu_res,       \* history: how Menu::new ended per item
    n_changes          \* how many change signals and menu signals were handled

busState == <<killed, pending_replies, queue, kill_queue, send_task, recv_task>>
sigState == <<signal_handlers, sh_rule, disabled, sh_handle, next_id, rd_handlers>>
objState == <<objects, weak_objects, strong, obj_path, methods, next_obj, tokens>>
callState == <<next_serial, call, ucall, drain>>
cbHist == <<invoked, result, late_cb>>
killHist == <<kill_taken, wire_at_kill, post_kill>>
sigHist == <<sig_snap, sig_log, sh_late>>
outHist == <<wire, issued>>
miscHist == <<cb_after_kill, mc_last, pr_done>>

lockState == <<mutex, obj_mutex, lpc, lpath, lcb, cb_locked, cb_free>>

watcherState == <<w_items, w_hosts, w_props, w_emit, w_last>>

\* The state of the bus client, and that of the program's services above it.
bussyState == <<busState, sigState, objState, callState, cbHist, killHist, sigHist,
               outHist, miscHist, lockState>>
hostState == <<h_items, h_gets, h_emit, h_last, it_status, it_variant, it_task,
               it_owner, it_handlers, next_item, it_removed, it_announced>>
mirrorState == <<m_tree, m_resp, m_delta, m_prev, m_count, m_diff, r_items, r_expect>>
itemState == <<it_props, it_menu, c_calls, rf_tasks, it_refetched, om_state, om_cb, it_late,
               it_first_menu, it_removed_cb, it_failed, it_menu_res, n_changes>>
remoteState == <<b_rev, b_reply, b_match, b_routed, b_lost>>
appState == <<watcherState, hostState, mirrorState, itemState, remoteState>>

\* What the handlers of one service leave alone.
notWatcher == <<bussyState, hostState, mirrorState, itemState, remoteState>>
notHost == <<bussyState, watcherState, mirrorState, remoteState>>
notMirror == <<bussyState, watcherState, hostState, itemState, remoteState>>

vars == <<bussyState, appState>>

\* Strings are sequences of characters; "S" abbreviates StatusNotifierItem and
\* "F" / "K" the freedesktop / KDE watcher name.
Variants == {"fdo", "kde"}
NoSender == <<>>
Senders == {<<"a">>, <<"a", "b">>}
ItemArgs == {<<"/", "S">>, <<"a">>, <<"a", "b">>}
SniSuffix == <<"/", "S">>
WatcherName(v) == IF v = "fdo" THEN <<"F">> ELSE <<"K">>
BusNames == Senders \cup {WatcherName(v) : v \in Variants}

NoMessage == [op |-> "none", v |-> "", arg |-> <<>>, sender |-> <<>>,
              id |-> <<>>, new |-> FALSE, first |-> FALSE, served |-> <<>>]

\* The host side: item identifiers as the watchers send them, the SniItem
\* objects, and the host names ("H" abbreviates StatusNotifierHost-<id>).
ItemIds == {<<"a", "/", "S">>, <<"a">>, <<"/", "S">>, <<"a", "/", "/">>}
ItemObjs == 1..MaxItems
HostName(v) == IF v = "fdo" THEN <<"f", "H">> ELSE <<"k", "H">>
ItemSignals == <<"NewTitle", "NewIcon", "NewAttentionIcon", "NewOverlayIcon",
                 "NewToolTip", "NewStatus">>

NoHostMessage == [op |-> "none", v |-> "", name |-> <<>>, new_owner |-> <<>>,
                  ok |-> FALSE, ids |-> <<>>, fed |-> <<>>, o |-> 0, sig |-> "",
                  prop |-> "", cbs |-> {}]

\* SniItemProperties: the thirteen fields the first fetch writes together, in
\* the order of its Gets, and is_menu. A field is "none" (None), "v0" (the
\* value of the first fetch) or "v1" (the value of a re-fetch); is_menu is
\* "false" or "true".
SnapFields == <<"category", "id", "title", "status", "icon_name", "icon_theme_path",
                "icon", "attention_icon_name", "attention_movie_name",
                "attention_icon", "overlay_icon_name", "overlay_icon", "tooltip">>
DefaultSnapshot ==
    [f \in {SnapFields[i] : i \in DOMAIN SnapFields} \cup {"is_menu"} |->
        IF f = "is_menu" THEN "false" ELSE "none"]

\* The fields a change signal re-fetches, and the MutableProperty it reports.
SignalProps(sig) ==
    CASE sig = "NewTitle" -> <<"title">>
      [] sig = "NewIcon" -> <<"icon", "icon_name">>
      [] sig = "NewAttentionIcon" -> <<"attention_icon", "attention_icon_name">>
      [] sig = "NewOverlayIcon" -> <<"overlay_icon", "overlay_icon_name">>
      [] sig = "NewToolTip" -> <<"tooltip">>
      [] sig = "NewStatus" -> <<"status">>
SignalFields(sig) == {SignalProps(sig)[i] : i \in DOMAIN SignalProps(sig)}
Mutable(sig) ==
    CASE sig = "NewTitle" -> "Title"
      [] sig = "NewIcon" -> "Icon"
      [] sig = "NewAttentionIcon" -> "AttentionIcon"
      [] sig = "NewOverlayIcon" -> "OverlayIcon"
      [] sig = "NewToolTip" -> "ToolTip"
      [] sig = "NewStatus" -> "Status"

RefetchIds == 1..MaxRefetch
OpenIds == 1..MaxOpens
NoRefetch == [o |-> 0, sig |-> "", pos |-> "none", late |-> FALSE]

NoToken == [live |-> FALSE, no_reply |-> FALSE, replied |-> FALSE, sent |-> 0]

NoCall == [path |-> "", outcome |-> "none", live |-> 0]

\* An outgoing message: its primary serial, what built it, and an argument
\* (the handler id of an AddMatch/RemoveMatch, 0 otherwise).
Msg(s, k, a) == [serial |-> s, kind |-> k, arg |-> a]


----------------------------------------------------------------------------
\* Helpers shared by the operations.

\* A reply callback (MethodReplyHandler) is called with result r for every
\* serial of S.
InvokeReply(S, r) ==
    /\ invoked' = [s \in Serials |-> IF s \in S THEN invoked[s] + 1 ELSE invoked[s]]
    /\ result' = [s \in Serials |-> IF s \in S THEN r ELSE result[s]]
    /\ late_cb' = late_cb \cup {s \in S : call[s] = "dropped"}

\* mpsc::UnboundedSender::send on Shared.queue.
QueueSend(m) ==
    /\ queue' = Append(queue, m)
    /\ issued' = Append(issued, m)

\* (mutant) kill() does not abort the tasks.
NotAborted(task) == task

\* JoinHandle::abort: a task suspended at an await never runs again; a task
\* that is running goes on to its next check of the killed flag.
Aborted(task) == IF task = "idle" THEN "done" ELSE task

\* Shared::kill: under the lock abort both tasks, set killed, clear the
\* signal-handler and object tables and take pending_replies; then call the
\* taken callbacks with Killed, in the map's order.  `first` is the callback
\* the loop calls first (0 when nothing was taken); the rest stay in drain.
KillBody(first) ==
    /\ killed' = TRUE
    /\ signal_handlers' = {}
    /\ objects' = [p \in Paths |-> 0]
    /\ pending_replies' = {}
    /\ kill_taken' = kill_taken \cup pending_replies
    /\ wire_at_kill' = IF killed THEN wire_at_kill ELSE Len(wire)
    /\ UNCHANGED post_kill
    /\ IF pending_replies = {}
       THEN /\ first = 0
            /\ drain' = drain
            /\ UNCHANGED cbHist
       ELSE /\ first \in pending_replies
            /\ drain' = drain \cup (pending_replies \ {first})
            /\ InvokeReply({first}, "Killed")

\* (mutant) kill_reply calls the callback and leaves it in the table.
KillReplyKeep(m, e) ==
    /\ pending_replies' = pending_replies
    /\ InvokeReply({m.serial} \cap pending_replies, e)

\* Shared::kill_reply: remove the message's serial from pending_replies and
\* call the callback with error e.
KillReply(m, e) ==
    /\ pending_replies' = pending_replies \ {m.serial}
    /\ InvokeReply({m.serial} \cap pending_replies, e)

----------------------------------------------------------------------------
\* Outgoing calls.

\* (mutant) the enqueue ignores the killed flag.
RouteCallUnrouted(s) ==
    /\ QueueSend(Msg(s, "call", 0))
    /\ UNCHANGED kill_queue
    /\ post_kill' = IF killed THEN post_kill \cup {s} ELSE post_kill

\* The end of Shared::call_async: the message goes to the kill queue when the
\* killed flag is set, to the outgoing queue otherwise.
RouteCall(s) ==
    /\ IF killed
       THEN /\ kill_queue' = Append(kill_queue, Msg(s, "call", 0))
            /\ UNCHANGED <<queue, issued>>
       ELSE /\ QueueSend(Msg(s, "call", 0))
            /\ UNCHANGED kill_queue
    /\ post_kill' = IF killed THEN post_kill \cup {s} ELSE post_kill

\* Shared::call_async (also Shared::call and get_property[_async], which wrap
\* it): build the message (zbus gives it the next serial), insert the callback
\* under the lock, enqueue the message and return the Call handle.
CallAsync ==
    /\ ucall = 0
    /\ next_serial <= MaxSerial
    /\ next_serial' = next_serial + 1
    /\ pending_replies' = pending_replies \cup {next_serial}
    /\ RouteCall(next_serial)
    /\ call' = [call EXCEPT ![next_serial] = "held"]
    /\ UNCHANGED <<killed, send_task, recv_task, ucall, drain>>
    /\ UNCHANGED <<sigState, objState, cbHist, kill_taken, wire_at_kill, sigHist>>
    /\ UNCHANGED <<wire, miscHist>>
    /\ UNCHANGED lockState
    /\ UNCHANGED appState

\* Shared::call_async up to the release of the table mutex, for a caller that
\* runs concurrently with the tasks: the callback is in pending_replies and
\* the message is not yet enqueued.
CallAsyncInsert ==
    /\ ucall = 0
    /\ next_serial <= MaxSerial
    /\ ucall' = next_serial
    /\ next_serial' = next_serial + 1
    /\ pending_replies' = pending_replies \cup {next_serial}
    /\ UNCHANGED <<killed, queue, kill_queue, send_task, recv_task, call, drain>>
    /\ UNCHANGED <<sigState, objState, cbHist, killHist, sigHist, outHist, miscHist>>
    /\ UNCHANGED lockState
    /\ UNCHANGED appState

\* Shared::call_async after the release of the table mutex: read the killed
\* flag, enqueue the message and return the Call handle.
CallAsyncSend ==
    /\ ucall # 0
    /\ RouteCall(ucall)
    /\ call' = [call EXCEPT ![ucall] = "held"]
    /\ ucall' = 0
    /\ UNCHANGED <<killed, pending_replies, send_task, recv_task, next_serial, drain>>
    /\ UNCHANGED <<sigState, objState, cbHist, kill_taken, wire_at_kill, sigHist>>
    /\ UNCHANGED <<wire, miscHist>>
    /\ UNCHANGED lockState
    /\ UNCHANGED appState

\* Call::detach.
CallDetach(s) ==
    /\ call[s] = "held"
    /\ call' = [call EXCEPT ![s] = "detached"]
    /\ UNCHANGED <<busState, sigState, objState, next_serial, ucall, drain>>
    /\ UNCHANGED <<cbHist, killHist, sigHist, outHist, miscHist>>
    /\ UNCHANGED lockState
    /\ UNCHANGED appState

\* (mutant) the drop ignores the detached flag.
RemovesOnDropAlways(s) == TRUE

\* `if !self.detached` of impl Drop for Call.
RemovesOnDrop(s) == call[s] = "held"

\* impl Drop for Call: unless detached, remove the serial from pending_replies.
CallDrop(s) ==
    /\ call[s] \in {"held", "detached"}
    /\ call' = [call EXCEPT ![s] = IF @ = "held" THEN "dropped" ELSE "detached_dropped"]
    /\ pending_replies' = IF RemovesOnDrop(s) THEN pending_replies \ {s}
                                              ELSE pending_replies
    /\ UNCHANGED <<killed, queue, kill_queue, send_task, recv_task>>
    /\ UNCHANGED <<sigState, objState, next_serial, ucall, drain>>
    /\ UNCHANGED <<cbHist, killHist, sigHist, outHist, miscHist>>
    /\ UNCHANGED lockState
    /\ UNCHANGED appState

\* Shared::send_signal (also Object::set_property's PropertiesChanged).
SendSignal ==
    /\ next_serial <= MaxSerial
    /\ next_serial' = next_serial + 1
    /\ QueueSend(Msg(next_serial, "signal", 0))
    /\ UNCHANGED <<killed, pending_replies, kill_queue, send_task, recv_task>>
    /\ UNCHANGED <<sigState, objState, call, ucall, drain>>
    /\ UNCHANGED <<cbHist, killHist, sigHist, wire, miscHist>>
    /\ UNCHANGED lockState
    /\ UNCHANGED appState

\* Shared::call_no_reply (also Shared::request_name).
CallNoReply ==
    /\ next_serial <= MaxSerial
    /\ next_serial' = next_serial + 1
    /\ QueueSend(Msg(next_serial, "call_no_reply", 0))
    /\ UNCHANGED <<killed, pending_replies, kill_queue, send_task, recv_task>>
    /\ UNCHANGED <<sigState, objState, call, ucall, drain>>
    /\ UNCHANGED <<cbHist, killHist, sigHist, wire, miscHist>>
    /\ UNCHANGED lockState
    /\ UNCHANGED appState

----------------------------------------------------------------------------
\* Kill.

\* impl Drop for ConnectionHolder / impl Drop for Connection: Shared::kill.
\* The writer is suspended at an await whenever user code runs; the reader is
\* suspended, or it is the task whose callback makes this call, and then it
\* goes on to its next check of the killed flag.
Kill ==
    /\ \E first \in pending_replies \cup {0} : KillBody(first)
    /\ recv_task' \in {recv_task, Aborted(recv_task)}
    /\ send_task' = Aborted(send_task)
    /\ UNCHANGED <<queue, kill_queue>>
    /\ UNCHANGED <<sh_rule, disabled, sh_handle, next_id, rd_handlers>>
    /\ UNCHANGED <<weak_objects, strong, obj_path, methods, next_obj, tokens>>
    /\ UNCHANGED <<next_serial, call, ucall>>
    /\ UNCHANGED <<sigHist, outHist, miscHist>>
    /\ UNCHANGED lockState
    /\ UNCHANGED appState

\* Shared::kill, the rest of the loop over the taken callbacks.
KillDrain(s) ==
    /\ s \in drain
    /\ drain' = drain \ {s}
    /\ InvokeReply({s}, "Killed")
    /\ UNCHANGED <<busState, sigState, objState, next_serial, call, ucall>>
    /\ UNCHANGED <<killHist, sigHist, outHist, miscHist>>
    /\ UNCHANGED lockState
    /\ UNCHANGED appState

\* Shared::kill_queue: one message of the kill queue is replayed as Killed.
KillQueue ==
    /\ kill_queue # <<>>
    /\ kill_queue' = Tail(kill_queue)
    /\ KillReply(Head(kill_queue), "Killed")
    /\ UNCHANGED <<killed, queue, send_task, recv_task>>
    /\ UNCHANGED <<sigState, objState, callState, killHist, sigHist, outHist, miscHist>>
    /\ UNCHANGED lockState
    /\ UNCHANGED appState

----------------------------------------------------------------------------
\* The writer task, Shared::send.

\* (mutant) the writer takes the newest message of the queue.
WriterSendNewest ==
    /\ send_task = "idle"
    /\ queue # <<>>
    /\ queue' = SubSeq(queue, 1, Len(queue) - 1)
    /\ wire' = Append(wire, queue[Len(queue)])
    /\ UNCHANGED <<killed, pending_replies, kill_queue, send_task, recv_task>>
    /\ UNCHANGED <<sigState, objState, callState, cbHist, killHist, sigHist>>
    /\ UNCHANGED <<issued, miscHist>>
    /\ UNCHANGED lockState
    /\ UNCHANGED appState

\* One turn of the loop: the transport accepts the message.
WriterSend ==
    /\ send_task = "idle"
    /\ queue # <<>>
    /\ queue' = Tail(queue)
    /\ wire' = Append(wire, Head(queue))
    /\ UNCHANGED <<killed, pending_replies, kill_queue, send_task, recv_task>>
    /\ UNCHANGED <<sigState, objState, callState, cbHist, killHist, sigHist>>
    /\ UNCHANGED <<issued, miscHist>>
    /\ UNCHANGED lockState
    /\ UNCHANGED appState

\* One turn of the loop: the transport rejects the message; kill_reply fails
\* its callback with Send and the loop is left.
WriterFail ==
    /\ send_task = "idle"
    /\ queue # <<>>
    /\ queue' = Tail(queue)
    /\ KillReply(Head(queue), "Send")
    /\ send_task' = "failed"
    /\ UNCHANGED <<killed, kill_queue, recv_task>>
    /\ UNCHANGED <<sigState, objState, callState, killHist, sigHist, outHist, miscHist>>
    /\ UNCHANGED lockState
    /\ UNCHANGED appState

\* (mutant) the writer leaves its loop and ends without killing the connection.
WriterKillSkipped ==
    /\ send_task = "failed"
    /\ send_task' = "done"
    /\ UNCHANGED <<killed, pending_replies, queue, kill_queue, recv_task>>
    /\ UNCHANGED <<sigState, objState, callState, cbHist, killHist, sigHist>>
    /\ UNCHANGED <<outHist, miscHist>>
    /\ UNCHANGED lockState
    /\ UNCHANGED appState

\* After the loop: self.kill().
WriterKill ==
    /\ send_task = "failed"
    /\ \E first \in pending_replies \cup {0} : KillBody(first)
    /\ send_task' = "done"
    /\ recv_task' = Aborted(recv_task)
    /\ UNCHANGED <<queue, kill_queue>>
    /\ UNCHANGED <<sh_rule, disabled, sh_handle, next_id, rd_handlers>>
    /\ UNCHANGED <<weak_objects, strong, obj_path, methods, next_obj, tokens>>
    /\ UNCHANGED <<next_serial, call, ucall>>
    /\ UNCHANGED <<sigHist, outHist, miscHist>>
    /\ UNCHANGED lockState
    /\ UNCHANGED appState

----------------------------------------------------------------------------
\* The reader task, Shared::recv.

\* The result a reply callback gets for a MethodReturn or Error message.
ReplyResult(type) ==
    IF type = "MethodReturn" THEN "Ok" ELSE "ErrorReply"

\* A MethodReturn or Error with reply-serial s arrives; the peer replies, once
\* or several times, to messages that were written to the transport.
RecvReply(s, type) ==
    /\ recv_task = "idle"
    /\ \E i \in DOMAIN wire : wire[i].serial = s
    /\ IF killed
       THEN /\ recv_task' = "done"
            /\ UNCHANGED <<pending_replies, cbHist>>
       ELSE /\ recv_task' = recv_task
            /\ pending_replies' = pending_replies \ {s}
            /\ InvokeReply({s} \cap pending_replies, ReplyResult(type))
    /\ UNCHANGED <<killed, queue, kill_queue, send_task>>
    /\ UNCHANGED <<sigState, objState, callState, killHist, sigHist, outHist, miscHist>>
    /\ UNCHANGED lockState
    /\ UNCHANGED appState

\* The stream ends or yields an error: the loop is left and self.kill() runs.
RecvEnd ==
    /\ recv_task = "idle"
    /\ \E first \in pending_replies \cup {0} : KillBody(first)
    /\ recv_task' = "done"
    /\ send_task' = Aborted(send_task)
    /\ UNCHANGED <<queue, kill_queue>>
    /\ UNCHANGED <<sh_rule, disabled, sh_handle, next_id, rd_handlers>>
    /\ UNCHANGED <<weak_objects, strong, obj_path, methods, next_obj, tokens>>
    /\ UNCHANGED <<next_serial, call, ucall>>
    /\ UNCHANGED <<sigHist, outHist, miscHist>>
    /\ UNCHANGED lockState
    /\ UNCHANGED appState

----------------------------------------------------------------------------
\* Signal handlers.

\* (mutant) the tables take entries after the kill.
MayInsertAlways == TRUE

\* `if !self.killed.load(Relaxed)` under the lock, in handle_signal and add_obj.
MayInsert == ~killed

\* Shared::handle_signal: take the next id, insert the handler unless killed,
\* then issue AddMatch with call_async and detach that call.
HandleSignal(rule) ==
    /\ ucall = 0
    /\ next_id < MaxHandlers
    /\ next_serial <= MaxSerial
    /\ next_id' = next_id + 1
    /\ sh_rule' = [sh_rule EXCEPT ![next_id] = rule]
    /\ sh_handle' = [sh_handle EXCEPT ![next_id] = "held"]
    /\ signal_handlers' = IF MayInsert THEN signal_handlers \cup {next_id}
                                        ELSE signal_handlers
    /\ next_serial' = next_serial + 1
    /\ pending_replies' = pending_replies \cup {next_serial}
    /\ call' = [call EXCEPT ![next_serial] = "detached"]
    /\ IF killed
       THEN /\ kill_queue' = Append(kill_queue, Msg(next_serial, "AddMatch", next_id))
            /\ UNCHANGED <<queue, issued>>
       ELSE /\ QueueSend(Msg(next_serial, "AddMatch", next_id))
            /\ UNCHANGED kill_queue
    /\ post_kill' = IF killed THEN post_kill \cup {next_serial} ELSE post_kill
    /\ UNCHANGED <<killed, send_task, recv_task, disabled, rd_handlers, ucall, drain>>
    /\ UNCHANGED <<objState, cbHist, kill_taken, wire_at_kill, sigHist, wire, miscHist>>
    /\ UNCHANGED lockState
    /\ UNCHANGED appState

\* SignalHandler::detach.
SignalDetach(h) ==
    /\ sh_handle[h] = "held"
    /\ sh_handle' = [sh_handle EXCEPT ![h] = "detached"]
    /\ UNCHANGED <<signal_handlers, sh_rule, disabled, next_id, rd_handlers>>
    /\ UNCHANGED <<busState, objState, callState, cbHist, killHist, sigHist>>
    /\ UNCHANGED <<outHist, miscHist>>
    /\ UNCHANGED lockState
    /\ UNCHANGED appState

\* impl Drop for SignalHandler, of a handle that was not detached: send
\* RemoveMatch with call_no_reply, remove the handler from the table and, if
\* it was there, set its disabled flag.
SignalDrop(h) ==
    /\ sh_handle[h] = "held"
    /\ next_serial <= MaxSerial
    /\ next_serial' = next_serial + 1
    /\ QueueSend(Msg(next_serial, "RemoveMatch", h))
    /\ sh_handle' = [sh_handle EXCEPT ![h] = "dropped"]
    /\ signal_handlers' = signal_handlers \ {h}
    /\ disabled' = [disabled EXCEPT ![h] = disabled[h] \/ h \in signal_handlers]
    /\ UNCHANGED <<killed, pending_replies, kill_queue, send_task, recv_task>>
    /\ UNCHANGED <<sh_rule, next_id, rd_handlers, call, ucall, drain>>
    /\ UNCHANGED <<objState, cbHist, killHist, sigHist, wire, miscHist>>
    /\ UNCHANGED lockState
    /\ UNCHANGED appState

\* The orders in which HashMap::values() can yield the handlers of S.
Orders(S) ==
    {f \in [1..Cardinality(S) -> S] : \A i, j \in DOMAIN f : f[i] = f[j] => i = j}

\* Whether a handler's match rule accepts a signal.
Matches(h, sig) == sh_rule[h] = sig

\* A Signal arrives: under the lock the handlers whose rule matches are pushed
\* on the reader's vec, in the map's iteration order.
RecvSignal(sig) ==
    /\ recv_task = "idle"
    /\ IF killed
       THEN /\ recv_task' = "done"
            /\ UNCHANGED <<rd_handlers, sig_snap, sig_log>>
       ELSE LET matching == {h \in signal_handlers : Matches(h, sig)} IN
            /\ rd_handlers' \in Orders(matching)
            /\ sig_snap' = matching
            /\ sig_log' = <<>>
            /\ recv_task' = IF matching = {} THEN "idle" ELSE "signal"
    /\ UNCHANGED <<killed, pending_replies, queue, kill_queue, send_task>>
    /\ UNCHANGED <<signal_handlers, sh_rule, disabled, sh_handle, next_id>>
    /\ UNCHANGED <<objState, callState, cbHist, killHist, sh_late, outHist, miscHist>>
    /\ UNCHANGED lockState
    /\ UNCHANGED appState

\* (mutant) the loop stops calling handlers after the first one.
CallsHandlerFirstOnly(h) == ~disabled[h] /\ sig_log = <<>>

\* (mutant) the loop ignores the disabled flag.
CallsHandlerAlways(h) == TRUE

\* Whether the dispatch loop calls the callback of the handler it popped.
CallsHandler(h) == ~disabled[h]

\* One turn of `while let Some(handler) = signal_handlers.pop()`: return when
\* killed, skip a disabled handler, call the callback otherwise.
RecvSignalStep ==
    /\ recv_task = "signal"
    /\ LET n == Len(rd_handlers)
           h == rd_handlers[n]
           rest == SubSeq(rd_handlers, 1, n - 1)
       IN IF killed
          THEN /\ recv_task' = "done"
               /\ rd_handlers' = rd_handlers
               /\ UNCHANGED <<sig_log, sh_late, cb_after_kill>>
          ELSE /\ rd_handlers' = rest
               /\ recv_task' = IF rest = <<>> THEN "idle" ELSE "signal"
               /\ IF CallsHandler(h)
                  THEN /\ sig_log' = Append(sig_log, h)
                       /\ sh_late' = sh_late \cup
                                       (IF sh_handle[h] = "dropped" THEN {h} ELSE {})
                       /\ cb_after_kill' = (cb_after_kill \/ killed)
                  ELSE UNCHANGED <<sig_log, sh_late, cb_after_kill>>
    /\ UNCHANGED <<killed, pending_replies, queue, kill_queue, send_task>>
    /\ UNCHANGED <<signal_handlers, sh_rule, disabled, sh_handle, next_id>>
    /\ UNCHANGED <<objState, callState, cbHist, killHist, sig_snap, outHist, mc_last, pr_done>>
    /\ UNCHANGED lockState
    /\ UNCHANGED appState

----------------------------------------------------------------------------
\* Exported objects.

\* The object add_obj finds alive through weak_objects (Weak::upgrade), or 0.
Upgrade(p) ==
    IF weak_objects[p] # 0 /\ strong[weak_objects[p]] > 0 THEN weak_objects[p] ELSE 0

\* The number of live Arc<Object> handles of objects made for path p.
RECURSIVE SumStrong(_)
SumStrong(O) ==
    IF O = {} THEN 0
    ELSE LET o == CHOOSE x \in O : TRUE IN strong[o] + SumStrong(O \ {o})

LiveHandles(p) == SumStrong({o \in ObjectIds : obj_path[o] = p})

\* Shared::add_obj: return the live object of the path if there is one; else
\* make a new object and, unless killed, enter it in objects and weak_objects.
AddObj(p) ==
    /\ IF Upgrade(p) # 0
       THEN /\ strong[Upgrade(p)] < MaxStrong
            /\ strong' = [strong EXCEPT ![Upgrade(p)] = @ + 1]
            /\ UNCHANGED <<objects, weak_objects, obj_path, next_obj>>
       ELSE /\ next_obj <= MaxObjects
            /\ next_obj' = next_obj + 1
            /\ strong' = [strong EXCEPT ![next_obj] = 1]
            /\ obj_path' = [obj_path EXCEPT ![next_obj] = p]
            /\ IF MayInsert
               THEN /\ objects' = [objects EXCEPT ![p] = next_obj]
                    /\ weak_objects' = [weak_objects EXCEPT ![p] = next_obj]
               ELSE UNCHANGED <<objects, weak_objects>>
    /\ UNCHANGED <<methods, tokens>>
    /\ UNCHANGED <<busState, sigState, callState, cbHist, killHist, sigHist>>
    /\ UNCHANGED <<outHist, miscHist>>
    /\ UNCHANGED lockState
    /\ UNCHANGED appState

\* (mutant) dropping the last handle leaves the object exported.
ObjectsAfterDropKept(o) == objects

\* What impl Drop for Object leaves of the objects table.
ObjectsAfterDrop(o) == [objects EXCEPT ![obj_path[o]] = 0]

\* One Arc<Object> handle is dropped; the last one runs impl Drop for Object,
\* which removes the object's path from the objects table.
ObjDrop(o) ==
    /\ strong[o] > 0
    /\ strong' = [strong EXCEPT ![o] = @ - 1]
    /\ objects' = IF strong[o] = 1 THEN ObjectsAfterDrop(o) ELSE objects
    /\ UNCHANGED <<weak_objects, obj_path, methods, next_obj, tokens>>
    /\ UNCHANGED <<busState, sigState, callState, cbHist, killHist, sigHist>>
    /\ UNCHANGED <<outHist, miscHist>>
    /\ UNCHANGED lockState
    /\ UNCHANGED appState

\* Object::add_method.
AddMethod(o, m) ==
    /\ strong[o] > 0
    /\ methods' = [methods EXCEPT ![o] = @ \cup {m}]
    /\ UNCHANGED <<objects, weak_objects, strong, obj_path, next_obj, tokens>>
    /\ UNCHANGED <<busState, sigState, callState, cbHist, killHist, sigHist>>
    /\ UNCHANGED <<outHist, miscHist>>
    /\ UNCHANGED lockState
    /\ UNCHANGED appState

\* A free PendingReply token.
FreeToken == CHOOSE t \in TokenIds : ~tokens[t].live

\* The members of org.freedesktop.DBus.Properties that the reader serves itself.
PropsMembers == {"Get"}

\* What handle_get_property / handle_get_properties answer through handle_call.
PropsReplies(body_ok) ==
    IF body_ok THEN {"reply", "err: Property does not exist"}
               ELSE {"err: Could not deserialize message body"}

\* A MethodCall for path p and member m arrives.  The reader makes the
\* PendingReply, looks the object up under the lock (returning when killed),
\* then the method; a miss is answered with send_err, Properties.Get and GetAll
\* are answered from the object's properties, a hit hands the PendingReply to
\* the handler, whose wrapper handle_call answers an undecodable body itself.
\* When the reader keeps the token it drops it before it goes on.
RecvMethodCall(p, m, no_reply, body_ok) ==
    /\ recv_task = "idle"
    /\ LET o == objects[p]
           outcome == CASE killed -> "killed"
                        [] o = 0 -> "no_object"
                        [] m \in PropsMembers -> "props"
                        [] m \notin methods[o] -> "no_method"
                        [] ~body_ok -> "bad_body"
                        [] OTHER -> "handler"
           texts == CASE outcome = "no_object" -> {"err: Object does not exist"}
                      [] outcome = "no_method" -> {"err: Method does not exist"}
                      [] outcome = "bad_body" -> {"err: Could not deserialize message body"}
                      [] outcome = "props" -> PropsReplies(body_ok)
                      [] OTHER -> {"err: Application did not send a reply"}
           silent == outcome = "handler" \/ (outcome = "killed" /\ no_reply)
       IN /\ recv_task' = IF killed THEN "done" ELSE recv_task
          /\ mc_last' = [path |-> p, outcome |-> outcome, live |-> LiveHandles(p)]
          /\ cb_after_kill' = (cb_after_kill \/ (outcome = "handler" /\ killed))
          /\ IF silent
             THEN UNCHANGED <<queue, issued, next_serial>>
             ELSE /\ next_serial <= MaxSerial
                  /\ next_serial' = next_serial + 1
                  /\ \E text \in texts : QueueSend(Msg(next_serial, text, 0))
          /\ pr_done' = IF outcome = "handler" \/ no_reply
                        THEN pr_done
                        ELSE pr_done \cup {IF silent THEN 0 ELSE 1}
          /\ IF outcome = "handler"
             THEN /\ \E t \in TokenIds : ~tokens[t].live
                  /\ tokens' = [tokens EXCEPT ![FreeToken] =
                                  [live |-> TRUE, no_reply |-> no_reply,
                                   replied |-> FALSE, sent |-> 0]]
             ELSE UNCHANGED tokens
    /\ UNCHANGED <<killed, pending_replies, kill_queue, send_task>>
    /\ UNCHANGED <<objects, weak_objects, strong, obj_path, methods, next_obj>>
    /\ UNCHANGED <<sigState, call, ucall, drain, cbHist, killHist, sigHist, wire>>
    /\ UNCHANGED lockState
    /\ UNCHANGED appState

\* (variant) a handler that replies at most once per token.
SendsAgainNever(t) == ~tokens[t].replied

\* Whether PendingReply::send / send_err enqueue a message for a token that
\* has replied already: they do not look at the replied flag.
SendsAgain(t) == TRUE

\* PendingReply::send (kind "reply") and PendingReply::send_err (an "err: " kind).
TokenSend(t, kind) ==
    /\ tokens[t].live
    /\ SendsAgain(t)
    /\ next_serial <= MaxSerial
    /\ next_serial' = next_serial + 1
    /\ QueueSend(Msg(next_serial, kind, 0))
    /\ tokens' = [tokens EXCEPT ![t].replied = TRUE, ![t].sent = @ + 1]
    /\ UNCHANGED <<killed, pending_replies, kill_queue, send_task, recv_task>>
    /\ UNCHANGED <<objects, weak_objects, strong, obj_path, methods, next_obj>>
    /\ UNCHANGED <<sigState, call, ucall, drain, cbHist, killHist, sigHist, wire>>
    /\ UNCHANGED miscHist
    /\ UNCHANGED lockState
    /\ UNCHANGED appState

\* impl Drop for PendingReply: an error reply unless one was sent or the call
\* had NoReplyExpected.
TokenDrop(t) ==
    /\ tokens[t].live
    /\ tokens' = [tokens EXCEPT ![t] = NoToken]
    /\ LET auto == ~tokens[t].replied /\ ~tokens[t].no_reply
       IN /\ IF auto
             THEN /\ next_serial <= MaxSerial
                  /\ next_serial' = next_serial + 1
                  /\ QueueSend(Msg(next_serial, "err: Application did not send a reply", 0))
             ELSE UNCHANGED <<queue, issued, next_serial>>
          /\ pr_done' = IF tokens[t].no_reply THEN pr_done
                        ELSE pr_done \cup {tokens[t].sent + IF auto THEN 1 ELSE 0}
    /\ UNCHANGED <<killed, pending_replies, kill_queue, send_task, recv_task>>
    /\ UNCHANGED <<objects, weak_objects, strong, obj_path, methods, next_obj>>
    /\ UNCHANGED <<sigState, call, ucall, drain, cbHist, killHist, sigHist, wire>>
    /\ UNCHANGED <<cb_after_kill, mc_last>>
    /\ UNCHANGED lockState
    /\ UNCHANGED appState

----------------------------------------------------------------------------
\* The same code with its critical sections spelled out.  A path takes the
\* table mutex, moves the callbacks it will call out of the tables (lcb), and
\* releases the mutex where the guard's scope ends; the inbound-call path then
\* takes the object's methods mutex for the lookup of the handler.  User code
\* runs between the paths and from inside a callback.

Cb(kind, id, res) == [kind |-> kind, id |-> id, res |-> res]

UserCode == lpc \in {"idle", "open"} /\ ~mutex /\ ~obj_mutex

\* The callbacks of the set S as a list, in an order of the hash map.
CbList(S, kind, res) ==
    {[i \in 1..Cardinality(S) |-> Cb(kind, f[i], res)] : f \in Orders(S)}

\* recv, Type::MethodReturn | Type::Error: the block that locks, checks killed
\* and removes the callback of the reply serial.
LockReply(s, type) ==
    /\ lpc = "idle" /\ recv_task = "idle"
    /\ \E i \in DOMAIN wire : wire[i].serial = s
    /\ mutex' = TRUE /\ lpc' = "locked" /\ lpath' = "reply"
    /\ IF killed
       THEN /\ recv_task' = "done"
            /\ UNCHANGED <<pending_replies, lcb>>
       ELSE /\ recv_task' = recv_task
            /\ pending_replies' = pending_replies \ {s}
            /\ lcb' = IF s \in pending_replies
                      THEN <<Cb("reply", s, ReplyResult(type))>> ELSE <<>>
    /\ UNCHANGED <<killed, queue, kill_queue, send_task>>
    /\ UNCHANGED <<sigState, objState, callState, cbHist, killHist, sigHist>>
    /\ UNCHANGED <<outHist, miscHist, obj_mutex, cb_locked, cb_free>>
    /\ UNCHANGED appState

\* recv, Type::Signal: the block that locks, checks killed and clones the
\* matching handlers.
LockSignal(sig) ==
    /\ lpc = "idle" /\ recv_task = "idle"
    /\ mutex' = TRUE /\ lpc' = "locked" /\ lpath' = "signal"
    /\ IF killed
       THEN /\ recv_task' = "done"
            /\ UNCHANGED lcb
       ELSE /\ recv_task' = recv_task
            /\ lcb' \in CbList({h \in signal_handlers : Matches(h, sig)}, "signal", "")
    /\ UNCHANGED <<killed, pending_replies, queue, kill_queue, send_task>>
    /\ UNCHANGED <<sigState, objState, callState, cbHist, killHist, sigHist>>
    /\ UNCHANGED <<outHist, miscHist, obj_mutex, cb_locked, cb_free>>
    /\ UNCHANGED appState

\* recv, Type::MethodCall: the block that locks, checks killed and looks the
\* object up.  A call to no object is answered with send_err after the block.
LockCall(p, m) ==
    /\ lpc = "idle" /\ recv_task = "idle"
    /\ mutex' = TRUE /\ lpc' = "locked" /\ lpath' = "call"
    /\ recv_task' = IF killed THEN "done" ELSE recv_task
    /\ lcb' = IF killed \/ objects[p] = 0 THEN <<>> ELSE <<Cb("method", objects[p], m)>>
    /\ IF killed \/ objects[p] = 0
       THEN /\ next_serial <= MaxSerial
            /\ next_serial' = next_serial + 1
            /\ QueueSend(Msg(next_serial,
                             IF killed THEN "err: Application did not send a reply"
                                       ELSE "err: Object does not exist", 0))
       ELSE UNCHANGED <<queue, issued, next_serial>>
    /\ UNCHANGED <<killed, pending_replies, kill_queue, send_task>>
    /\ UNCHANGED <<sigState, objState, call, ucall, drain, cbHist, killHist, sigHist>>
    /\ UNCHANGED <<wire, miscHist, obj_mutex, cb_locked, cb_free>>
    /\ UNCHANGED appState

\* kill(): the block that locks, aborts the tasks, sets killed, clears the
\* tables and takes pending_replies.  The writer calls it after a failed write,
\* everything else when no path is running.
LockKill(by) ==
    /\ lpc = "idle"
    /\ IF by = "send" THEN send_task = "failed" ELSE send_task # "failed"
    /\ mutex' = TRUE /\ lpc' = "locked" /\ lpath' = "kill"
    /\ killed' = TRUE
    /\ signal_handlers' = {}
    /\ objects' = [p \in Paths |-> 0]
    /\ pending_replies' = {}
    /\ kill_taken' = kill_taken \cup pending_replies
    /\ wire_at_kill' = IF killed THEN wire_at_kill ELSE Len(wire)
    /\ lcb' \in CbList(pending_replies, "reply", "Killed")
    /\ send_task' = IF by = "send" THEN "done" ELSE Aborted(send_task)
    /\ recv_task' = Aborted(recv_task)
    /\ UNCHANGED <<queue, kill_queue, post_kill>>
    /\ UNCHANGED <<sh_rule, disabled, sh_handle, next_id, rd_handlers>>
    /\ UNCHANGED <<weak_objects, strong, obj_path, methods, next_obj, tokens>>
    /\ UNCHANGED <<callState, cbHist, sigHist, outHist, miscHist>>
    /\ UNCHANGED <<obj_mutex, cb_locked, cb_free>>
    /\ UNCHANGED appState

\* kill_reply(): the let-else statement that locks and removes the callback of
\* the message, called by the writer for the message whose write failed
\* (by = "send") and by the kill-queue task (by = "kill_queue").
LockKillReply(by) ==
    /\ lpc = "idle"
    /\ by \in {"send", "kill_queue"}
    /\ LET q == IF by = "send" THEN queue ELSE kill_queue
       IN /\ q # <<>>
          /\ by = "send" => send_task = "idle"
          /\ pending_replies' = pending_replies \ {Head(q).serial}
          /\ lcb' = IF Head(q).serial \in pending_replies
                    THEN <<Cb("reply", Head(q).serial,
                              IF by = "send" THEN "Send" ELSE "Killed")>>
                    ELSE <<>>
          /\ queue' = IF by = "send" THEN Tail(queue) ELSE queue
          /\ kill_queue' = IF by = "send" THEN kill_queue ELSE Tail(kill_queue)
    /\ send_task' = IF by = "send" THEN "failed" ELSE send_task
    /\ mutex' = TRUE /\ lpc' = "locked" /\ lpath' = by
    /\ UNCHANGED <<killed, recv_task>>
    /\ UNCHANGED <<sigState, objState, callState, cbHist, killHist, sigHist>>
    /\ UNCHANGED <<outHist, miscHist, obj_mutex, cb_locked, cb_free>>
    /\ UNCHANGED appState

\* The MutexGuard of the table mutex goes out of scope.
Unlock ==
    /\ lpc = "locked" /\ mutex
    /\ mutex' = FALSE
    /\ lpc' = CASE lcb = <<>> -> "idle"
                [] lpath = "call" -> "methods"
                [] OTHER -> "open"
    /\ lpath' = IF lcb = <<>> THEN "none" ELSE lpath
    /\ UNCHANGED <<busState, sigState, objState, callState, cbHist, killHist>>
    /\ UNCHANGED <<sigHist, outHist, miscHist, obj_mutex, lcb, cb_locked, cb_free>>
    /\ UNCHANGED appState

\* recv, Type::MethodCall: `object.methods.lock()` and the lookup of the
\* handler.  A call to no method is answered with send_err after the block.
LockMethods ==
    /\ lpc = "methods"
    /\ obj_mutex' = TRUE /\ lpc' = "mlocked"
    /\ IF Head(lcb).res \in methods[Head(lcb).id]
       THEN UNCHANGED <<lcb, queue, issued, next_serial>>
       ELSE /\ lcb' = <<>>
            /\ next_serial <= MaxSerial
            /\ next_serial' = next_serial + 1
            /\ QueueSend(Msg(next_serial, "err: Method does not exist", 0))
    /\ UNCHANGED <<killed, pending_replies, kill_queue, send_task, recv_task>>
    /\ UNCHANGED <<sigState, objState, call, ucall, drain, cbHist, killHist, sigHist>>
    /\ UNCHANGED <<wire, miscHist, mutex, lpath, cb_locked, cb_free>>
    /\ UNCHANGED appState

\* The MutexGuard of the methods mutex goes out of scope.
UnlockMethods ==
    /\ lpc = "mlocked" /\ obj_mutex
    /\ obj_mutex' = FALSE
    /\ lpc' = IF lcb = <<>> THEN "idle" ELSE "open"
    /\ lpath' = IF lcb = <<>> THEN "none" ELSE lpath
    /\ UNCHANGED <<busState, sigState, objState, callState, cbHist, killHist>>
    /\ UNCHANGED <<sigHist, outHist, miscHist, mutex, lcb, cb_locked, cb_free>>
    /\ UNCHANGED appState

\* (mutant) the callbacks are called inside the block that holds the mutex.
CallbackStageLocked == "locked"

\* Where a path calls what it took: after the guards went out of scope.
CallbackStage == "open"

\* A path calls the next callback it took: a reply callback with its result,
\* a signal callback unless the connection is killed (the reader returns) or
\* the handler is disabled (skipped), a method handler with a PendingReply.
InvokeTaken ==
    /\ lpc = CallbackStage
    /\ lcb # <<>>
    /\ LET c == Head(lcb)
           returns == c.kind = "signal" /\ killed
           calls == ~returns /\ (c.kind = "signal" => CallsHandler(c.id))
           rest == IF returns THEN <<>> ELSE Tail(lcb)
       IN /\ lcb' = rest
          /\ lpc' = CASE rest # <<>> -> lpc
                      [] mutex -> "locked"
                      [] obj_mutex -> "mlocked"
                      [] OTHER -> "idle"
          /\ lpath' = IF rest = <<>> /\ ~mutex /\ ~obj_mutex THEN "none" ELSE lpath
          /\ recv_task' = IF returns THEN "done" ELSE recv_task
          /\ cb_locked' = IF calls /\ (mutex \/ obj_mutex)
                          THEN cb_locked \cup {lpath} ELSE cb_locked
          /\ cb_free' = IF calls /\ ~mutex /\ ~obj_mutex
                        THEN cb_free \cup {lpath} ELSE cb_free
          /\ IF c.kind = "reply"
             THEN InvokeReply({c.id}, c.res)
             ELSE UNCHANGED cbHist
          /\ IF c.kind = "method"
             THEN /\ \E t \in TokenIds : ~tokens[t].live
                  /\ tokens' = [tokens EXCEPT ![FreeToken] =
                                  [live |-> TRUE, no_reply |-> FALSE,
                                   replied |-> FALSE, sent |-> 0]]
             ELSE UNCHANGED tokens
    /\ UNCHANGED <<killed, pending_replies, queue, kill_queue, send_task>>
    /\ UNCHANGED <<objects, weak_objects, strong, obj_path, methods, next_obj>>
    /\ UNCHANGED <<sigState, callState, killHist, sigHist, outHist, miscHist>>
    /\ UNCHANGED <<mutex, obj_mutex>>
    /\ UNCHANGED appState

----------------------------------------------------------------------------
\* The StatusNotifierWatcher service (src/src/sni/watcher.rs).  Its handlers
\* run as method handlers and as a signal callback of the reader; each sends
\* its signals, property changes and reply into the outgoing queue, and w_emit
\* holds what the last one sent, in order.

Emit(kind, v, member, arg) == [kind |-> kind, v |-> v, member |-> member, arg |-> arg]

\* str::starts_with.
StartsWith(s, pre) == Len(pre) <= Len(s) /\ SubSeq(s, 1, Len(pre)) = pre

\* Whether register_status_notifier_item gets an item string: the KDE variant
\* returns early for a path argument of a message without sender.
HasItemString(v, arg, sender) ==
    v = "fdo" \/ ~StartsWith(arg, <<"/">>) \/ sender # NoSender

\* (mutant) the KDE variant puts the path before the sender.
ItemStringSwapped(v, arg, sender) ==
    CASE v = "fdo" -> arg
      [] StartsWith(arg, <<"/">>) -> arg \o sender
      [] OTHER -> arg \o SniSuffix

\* The item string of register_status_notifier_item.
ItemString(v, arg, sender) ==
    CASE v = "fdo" -> arg
      [] StartsWith(arg, <<"/">>) -> sender \o arg
      [] OTHER -> arg \o SniSuffix

\* (mutant) the property is set to an empty list.
ItemVecsEmpty(S) == {<<>>}

\* items.iter().cloned().collect::<Vec<_>>(): the set in the hash set's order.
ItemVecs(S) == Orders(S)

\* (mutant) HashSet::insert reports every item as new.
IsNewItemAlways(v, item) == TRUE

\* The result of data.items.insert(item).
IsNewItem(v, item) == item \notin w_items[v]

\* The RegisterStatusNotifierItem handler of variant v: resolve the item,
\* insert it, and if it is new set the RegisteredStatusNotifierItems property
\* (which sends PropertiesChanged) and send StatusNotifierItemRegistered; then
\* send the empty reply.
RegisterItem(v, arg, sender) ==
    /\ ~killed /\ recv_task = "idle"
    /\ LET has == HasItemString(v, arg, sender)
           item == ItemString(v, arg, sender)
           new == has /\ IsNewItem(v, item)
           items == IF has THEN w_items[v] \cup {item} ELSE w_items[v]
       IN /\ w_items' = [w_items EXCEPT ![v] = items]
          /\ IF new
             THEN \E vec \in ItemVecs(items) :
                    w_props' = [w_props EXCEPT ![v].items = vec]
             ELSE UNCHANGED w_props
          /\ w_emit' = (IF new
                        THEN <<Emit("prop", v, "RegisteredStatusNotifierItems", <<>>),
                               Emit("signal", v, "StatusNotifierItemRegistered", item)>>
                        ELSE <<>>) \o <<Emit("reply", v, "", <<>>)>>
          /\ w_last' = [NoMessage EXCEPT !.op = "register_item", !.v = v, !.arg = arg,
                                         !.sender = sender,
                                         !.id = IF has THEN item ELSE <<>>,
                                         !.new = has /\ item \notin w_items[v]]
    /\ UNCHANGED <<w_hosts, notWatcher>>

\* first_host of register_status_notifier_host, read after the insert.
IsFirstHost(v, new) == new /\ w_hosts[v] = {}

\* The RegisterStatusNotifierHost handler of variant v.
RegisterHost(v, service) ==
    /\ ~killed /\ recv_task = "idle"
    /\ LET new == service \notin w_hosts[v]
           first == IsFirstHost(v, new)
       IN /\ w_hosts' = [w_hosts EXCEPT ![v] = @ \cup {service}]
          /\ w_props' = IF new /\ first THEN [w_props EXCEPT ![v].host = TRUE]
                                        ELSE w_props
          /\ w_emit' = (IF new
                        THEN <<Emit("signal", v, "StatusNotifierHostRegistered", <<>>)>>
                        ELSE <<>>)
                       \o (IF new /\ first
                           THEN <<Emit("prop", v, "IsStatusNotifierHostRegistered", <<>>)>>
                           ELSE <<>>)
                       \o <<Emit("reply", v, "", <<>>)>>
          /\ w_last' = [NoMessage EXCEPT !.op = "register_host", !.v = v, !.arg = service,
                                         !.new = new, !.first = first]
    /\ UNCHANGED <<w_items, notWatcher>>

\* (mutant) the KDE variant removes only the item equal to the name.
KdeRemovesEqual(item, name) == item = name

\* The retain predicate of the KDE variant in handle_name_owner_changed.
KdeRemoves(item, name) == StartsWith(item, name)

\* The signals that handle_name_owner_changed sends for the removed items: the
\* freedesktop one first, then the KDE ones in the order of retain.
UnregisteredSignals(v, S) ==
    {[i \in 1..Cardinality(S) |->
         Emit("signal", v, "StatusNotifierItemUnregistered", f[i])] : f \in Orders(S)}

\* (mutant) the property is cleared whenever a host is removed.
HostsEmptiedAlways(v, name) == name \in w_hosts[v]

\* hosts_emptied of handle_name_owner_changed.
HostsEmptied(v, name) == name \in w_hosts[v] /\ w_hosts[v] \ {name} = {}

\* The NameOwnerChanged callback of the watcher.
NameOwnerChanged(name, new_owner) ==
    /\ ~killed /\ recv_task = "idle"
    /\ w_last' = [NoMessage EXCEPT !.op = "name_owner_changed", !.arg = name,
                                   !.sender = new_owner]
    /\ IF new_owner # <<>>
       THEN /\ w_emit' = <<>>
            /\ UNCHANGED <<w_items, w_hosts, w_props>>
       ELSE LET gone == [v \in Variants |->
                           IF v = "fdo" THEN w_items[v] \cap {name}
                           ELSE {i \in w_items[v] : KdeRemoves(i, name)}]
                left == [v \in Variants |-> w_items[v] \ gone[v]]
                names == [v \in Variants |->
                            IF name = WatcherName(v)
                            THEN <<Emit("request_name", v, "RequestName", name)>>
                            ELSE <<>>]
                prop == [v \in Variants |->
                           IF gone[v] # {}
                           THEN <<Emit("prop", v, "RegisteredStatusNotifierItems", <<>>)>>
                           ELSE <<>>]
                host == [v \in Variants |->
                           IF HostsEmptied(v, name)
                           THEN <<Emit("prop", v, "IsStatusNotifierHostRegistered", <<>>)>>
                           ELSE <<>>]
            IN /\ w_items' = left
               /\ w_hosts' = [v \in Variants |-> w_hosts[v] \ {name}]
               /\ \E fvec \in ItemVecs(left["fdo"]), kvec \in ItemVecs(left["kde"]) :
                     w_props' = [v \in Variants |->
                        [host |-> IF HostsEmptied(v, name) THEN FALSE ELSE w_props[v].host,
                         items |-> CASE gone[v] = {} -> w_props[v].items
                                     [] v = "fdo" -> fvec
                                     [] OTHER -> kvec]]
               /\ \E fs \in UnregisteredSignals("fdo", gone["fdo"]),
                     ks \in UnregisteredSignals("kde", gone["kde"]) :
                     w_emit' = names["fdo"] \o names["kde"]
                               \o fs \o prop["fdo"] \o ks \o prop["kde"]
                               \o host["fdo"] \o host["kde"]
    /\ UNCHANGED notWatcher

\* Properties.Get of a watcher property, served by handle_get_property from
\* the object's properties.
WatcherGet(v, member) ==
    /\ ~killed /\ recv_task = "idle"
    /\ member \in {"RegisteredStatusNotifierItems", "IsStatusNotifierHostRegistered"}
    /\ w_emit' = <<Emit("reply", v, member, <<>>)>>
    /\ w_last' = [NoMessage EXCEPT !.op = "get", !.v = v, !.arg = <<member>>,
                    !.served = IF member = "RegisteredStatusNotifierItems"
                               THEN w_props[v].items ELSE <<>>,
                    !.first = w_props[v].host]
    /\ UNCHANGED <<w_items, w_hosts, w_props, notWatcher>>

----------------------------------------------------------------------------
\* The menu mirror (src/src/sni/host/menu.rs): layout values, MenuTree, and
\* the merges that turn a GetLayout reply into a SniMenuDelta.

\* The elements of a sequence.
Range(f) == {f[i] : i \in DOMAIN f}

\* Option<T>: None is the empty sequence, Some(x) the sequence of x.
None == <<>>
Some(x) == <<x>>

\* A MenuLayoutValue as it arrives; decodes says whether a child variant is
\* a layout value at all (MenuLayoutValue::try_from). Of the properties
\* mapping the model keeps "label", "enabled" and "type", each present or not.
Layout(menu_id, properties, children) ==
    [decodes |-> TRUE, menu_id |-> menu_id, properties |-> properties,
     children |-> children]
RawPropsOf(label, enabled, type) == [label |-> label, enabled |-> enabled, type |-> type]
RawProps(label, enabled) == RawPropsOf(label, enabled, None)
EmptyLayout == Layout(0, RawProps(None, None), <<>>)
JunkValue == [EmptyLayout EXCEPT !.decodes = FALSE]

\* MenuProperties::default().
DefaultProperties ==
    [label |-> <<>>, access_key |-> None, enabled |-> FALSE, separator |-> FALSE]

\* The string "separator".
Separator == <<"s", "e", "p", "a", "r", "a", "t", "o", "r">>

\* The label loop of apply_properties: "_" marks the next character as the
\* access key, "__" is a literal "_".
RECURSIVE DecodeLabel(_, _, _, _)
DecodeLabel(s, label, last_was_underscore, access_key) ==
    IF s = <<>> THEN [label |-> label, access_key |-> access_key]
    ELSE IF Head(s) = "_"
         THEN IF last_was_underscore
              THEN DecodeLabel(Tail(s), Append(label, "_"), FALSE, access_key)
              ELSE DecodeLabel(Tail(s), label, TRUE, access_key)
         ELSE DecodeLabel(Tail(s), Append(label, Head(s)), FALSE,
                          IF last_was_underscore THEN Some(Head(s)) ELSE access_key)

\* MenuProperties::apply_properties with the getter of a layout value's
\* mapping, for which every name is present and a missing one reads None.
ApplyProperties(self, raw) ==
    LET l == IF raw.label = None
             THEN [label |-> <<>>, access_key |-> None]
             ELSE DecodeLabel(raw.label[1], <<>>, FALSE, self.access_key)
    IN [label |-> l.label, access_key |-> l.access_key,
        enabled |-> IF raw.enabled = None THEN TRUE ELSE raw.enabled[1],
        separator |-> IF raw.type = None THEN FALSE ELSE raw.type[1] = Separator]

\* MenuLayoutValue::parse_properties.
ParseProperties(raw) == ApplyProperties(DefaultProperties, raw)

\* The position of menu_id in an IndexMap kept as a sequence, 0 if absent.
IndexOf(map, menu_id) ==
    IF \E i \in 1..Len(map) : map[i].menu_id = menu_id
    THEN CHOOSE i \in 1..Len(map) : map[i].menu_id = menu_id
    ELSE 0

\* IndexMap::insert: a new key is appended, a known key keeps its place.
MapInsert(map, entry) ==
    IF IndexOf(map, entry.menu_id) = 0
    THEN Append(map, entry)
    ELSE [map EXCEPT ![IndexOf(map, entry.menu_id)] = entry]

\* IndexMap keys, in order.
Keys(map) == [i \in 1..Len(map) |-> map[i].menu_id]

\* MenuLayoutValue::parse_tree.
RECURSIVE ParseTree(_)
RECURSIVE ParseChildren(_, _)
ParseChildren(raw, children) ==
    IF raw = <<>> THEN children
    ELSE ParseChildren(Tail(raw),
                       IF Head(raw).decodes
                       THEN MapInsert(children, ParseTree(Head(raw)))
                       ELSE children)
ParseTree(v) ==
    [menu_id |-> v.menu_id,
     properties |-> ParseProperties(v.properties),
     children |-> ParseChildren(v.children, <<>>)]

\* SniMenuDelta.
Delta(menu_id, properties, children) ==
    [menu_id |-> menu_id, properties |-> properties, children |-> children]

\* An entry of SniMenuDelta.children: the key and its Option<SniMenuDelta>.
Entry(menu_id, delta) == [menu_id |-> menu_id, delta |-> delta]

\* From<MenuProperties> for SniMenuPropertiesDelta.
FullPropertiesDelta(p) ==
    [label |-> Some(p.label), access_key |-> Some(p.access_key),
     enabled |-> Some(p.enabled), separator |-> Some(p.separator)]

\* From<MenuTree> for SniMenuDelta.
RECURSIVE FullDelta(_)
FullDelta(tree) ==
    Delta(tree.menu_id, Some(FullPropertiesDelta(tree.properties)),
          Some([i \in 1..Len(tree.children) |->
                  Entry(tree.children[i].menu_id, Some(FullDelta(tree.children[i])))]))

\* MenuTree::merge_properties: the delta, None if no field differs; the
\* properties of the tree are the new ones afterwards.
MergeProperties(old, new) ==
    IF old = new THEN None
    ELSE Some([label |-> IF old.label # new.label THEN Some(new.label) ELSE None,
               access_key |-> IF old.access_key # new.access_key
                              THEN Some(new.access_key) ELSE None,
               enabled |-> IF old.enabled # new.enabled
                           THEN Some(new.enabled) ELSE None,
               separator |-> IF old.separator # new.separator
                             THEN Some(new.separator) ELSE None])

\* (mutant) a child that is new to the mirror gets no delta of its own.
NewChildDeltaNone(child) == None

\* The delta entry of a child that was not in the mirror: `Some(child.into())`.
NewChildDelta(child) == Some(FullDelta(child))

\* (mutant) the children diff lists the keys of the mirror, in its order.
DiffKeysOfMirror(self_children, diff) ==
    [i \in 1..Len(self_children) |->
        Entry(self_children[i].menu_id,
              IF IndexOf(diff, self_children[i].menu_id) = 0 THEN None
              ELSE diff[IndexOf(diff, self_children[i].menu_id)].delta)]

\* The children diff merge reports: the map filled in the loop over the
\* new children.
DiffReported(self_children, diff) == diff

\* MenuTree::merge and its loop over the new children. Both give the tree
\* afterwards and the delta (Option<SniMenuDelta>).
RECURSIVE Merge(_, _)
RECURSIVE MergeChildren(_, _, _, _)
MergeChildren(self_children, new_children, diff, any_child_changed) ==
    IF new_children = <<>>
    THEN [children |-> self_children, diff |-> diff, any |-> any_child_changed]
    ELSE LET child == Head(new_children)
             i == IndexOf(self_children, child.menu_id)
             m == Merge(self_children[i], child)
             delta == IF i = 0 THEN NewChildDelta(child) ELSE m.delta
         IN MergeChildren(IF i = 0 THEN MapInsert(self_children, child)
                          ELSE [self_children EXCEPT ![i] = m.tree],
                          Tail(new_children),
                          MapInsert(diff, Entry(child.menu_id, delta)),
                          any_child_changed \/ delta # None)
Merge(self, new) ==
    LET prop_delta == MergeProperties(self.properties, new.properties)
        retained == SelectSeq(self.children,
                              LAMBDA c : IndexOf(new.children, c.menu_id) # 0)
        r == MergeChildren(retained, new.children, <<>>,
                           Len(retained) # Len(self.children))
        tree == [menu_id |-> self.menu_id, properties |-> new.properties,
                 children |-> r.children]
    IN IF prop_delta = None /\ ~r.any
       THEN [tree |-> tree, delta |-> None]
       ELSE [tree |-> tree,
             delta |-> Some(Delta(self.menu_id, prop_delta,
                                  IF r.any
                                  THEN Some(DiffReported(r.children, r.diff))
                                  ELSE None))]

\* MenuTree::merge_nested and its loop over the children: found says whether
\* the new tree was taken, stop whether the loop returned Some(None).
RECURSIVE MergeNested(_, _, _)
RECURSIVE NestedChildren(_, _, _, _, _, _)
NestedChildren(children, i, menu_id, new, found, diff) ==
    IF i > Len(children)
    THEN [children |-> children, found |-> found, stop |-> FALSE, diff |-> diff]
    ELSE LET n == MergeNested(children[i], menu_id, new)
         IN IF ~found /\ n.found
            THEN IF n.delta = None
                 THEN [children |-> [children EXCEPT ![i] = n.tree], found |-> TRUE,
                       stop |-> TRUE, diff |-> diff]
                 ELSE NestedChildren([children EXCEPT ![i] = n.tree], i + 1, menu_id,
                                     new, TRUE,
                                     MapInsert(diff, Entry(children[i].menu_id, n.delta)))
            ELSE NestedChildren(children, i + 1, menu_id, new, found,
                                MapInsert(diff, Entry(children[i].menu_id, None)))
MergeNested(self, menu_id, new) ==
    IF self.menu_id = menu_id
    THEN LET m == Merge(self, new)
         IN [tree |-> m.tree, found |-> TRUE, delta |-> m.delta]
    ELSE LET r == NestedChildren(self.children, 1, menu_id, new, FALSE, <<>>)
             tree == [self EXCEPT !.children = r.children]
         IN IF r.stop THEN [tree |-> tree, found |-> TRUE, delta |-> None]
            ELSE IF r.found
                 THEN [tree |-> tree, found |-> TRUE,
                       delta |-> Some(Delta(self.menu_id, None, Some(r.diff)))]
                 ELSE [tree |-> self, found |-> FALSE, delta |-> None]

\* The callback of Menu::update_layout for an Ok reply, on the tree alone:
\* parse the value, merge it at its menu id, report the delta if there is one.
MergeResponse ==
    /\ m_count < MaxMerges
    /\ LET r == MergeNested(m_tree, m_resp.menu_id, ParseTree(m_resp))
       IN /\ m_tree' = r.tree
          /\ m_delta' = r.delta
    /\ m_prev' = m_tree
    /\ m_count' = m_count + 1
    /\ UNCHANGED <<m_resp, m_diff, r_items, r_expect, notMirror>>

\* The layout values of the model: a root 0 with the children 1 and 2 in
\* either order, 1 with an optional child 3; a child may come twice in a
\* reply or not decode.
RawPropsSet == {RawProps(Some(<<"x">>), None), RawProps(Some(<<"_", "x">>), Some(FALSE))}
RawGrand == {Layout(3, q, <<>>) : q \in RawPropsSet}
RawChild1 == {Layout(1, q, ch) : q \in RawPropsSet, ch \in {<<>>} \cup {<<g>> : g \in RawGrand}}
RawChild2 == {Layout(2, q, <<>>) : q \in RawPropsSet}
RawRootChildren ==
    {<<>>} \cup {<<c>> : c \in RawChild1 \cup RawChild2}
           \cup {<<c, d>> : c \in RawChild1, d \in RawChild2}
           \cup {<<d, c>> : c \in RawChild1, d \in RawChild2}
           \cup {<<c, d>> : c, d \in RawChild2}
           \cup {<<JunkValue, d>> : d \in RawChild2}
RawRoots == {Layout(0, q, ch) : q \in RawPropsSet, ch \in RawRootChildren}
Responses == RawRoots \cup RawChild1 \cup RawChild2 \cup RawGrand

----------------------------------------------------------------------------
\* The StatusNotifierHost side (src/src/sni/host.rs, src/src/sni/host/item.rs).

\* str::find("/"): the index of the first "/", 0 when there is none.
RECURSIVE FindSlash(_, _)
FindSlash(s, i) ==
    IF i > Len(s) THEN 0
    ELSE IF s[i] = "/" THEN i ELSE FindSlash(s, i + 1)

\* The destination and path parts of an item identifier.
Destination(id) ==
    IF FindSlash(id, 1) = 0 THEN id ELSE SubSeq(id, 1, FindSlash(id, 1) - 1)
ItemPath(id) ==
    IF FindSlash(id, 1) = 0 THEN SniSuffix ELSE SubSeq(id, FindSlash(id, 1), Len(id))

\* BusName::try_from and ObjectPath::try_from: a name is not empty; a path
\* starts with "/", has no empty element and, unless it is "/", no trailing "/".
ValidBusName(d) == d # <<>>
ValidPath(q) ==
    /\ q # <<>> /\ q[1] = "/"
    /\ Len(q) > 1 => q[Len(q)] # "/"
    /\ \A i \in 1..(Len(q) - 1) : ~(q[i] = "/" /\ q[i + 1] = "/")

\* The host's item state that handle_new_item reads and writes.
ItemState == [items |-> h_items, status |-> it_status, variant |-> it_variant,
              task |-> it_task, handlers |-> it_handlers, next |-> next_item,
              sent |-> <<>>, full |-> FALSE]

\* Host::handle_new_item on item state st: nothing for a known identifier or
\* one that does not parse; else a new SniItem with status New and its six
\* signal handlers (an AddMatch each), entered in items, and its task spawned.
NewItem(st, v, id) ==
    CASE st.items[id] # 0 -> st
      [] ~ValidBusName(Destination(id)) \/ ~ValidPath(ItemPath(id)) -> st
      [] st.next > MaxItems -> [st EXCEPT !.full = TRUE]
      [] OTHER ->
           [st EXCEPT !.items[id] = st.next,
                      !.status[st.next] = "New",
                      !.variant[st.next] = v,
                      !.task[st.next] = "spawned",
                      !.handlers[st.next] = Len(ItemSignals),
                      !.next = st.next + 1,
                      !.sent = @ \o [i \in 1..Len(ItemSignals) |->
                                       Emit("call", v, "AddMatch", <<ItemSignals[i]>>)]]

\* handle_new_item for each identifier of a list, in order.
RECURSIVE FeedItems(_, _, _)
FeedItems(st, v, ids) ==
    IF ids = <<>> THEN st ELSE FeedItems(NewItem(st, v, Head(ids)), v, Tail(ids))

\* The item state st becomes the host's.
SetItemState(st) ==
    /\ ~st.full
    /\ h_items' = st.items
    /\ it_status' = st.status
    /\ it_variant' = st.variant
    /\ it_task' = st.task
    /\ it_handlers' = st.handlers
    /\ next_item' = st.next
    /\ h_emit' = st.sent

\* The variants whose watcher name the name of a NameOwnerChanged equals.
WatchersNamed(name) == {v \in Variants : name = WatcherName(v)}

\* What Host::handle_name_owner_changed sends for one variant.
HostRegistration(v) ==
    <<Emit("call_no_reply", v, "RegisterStatusNotifierHost", HostName(v)),
      Emit("call", v, "Get", <<"RegisteredStatusNotifierItems">>)>>

\* The NameOwnerChanged callback of the host: for a non-empty new owner,
\* Host::handle_name_owner_changed registers the host with the watcher that has
\* this name and asks it for RegisteredStatusNotifierItems.
HostNameOwnerChanged(name, new_owner) ==
    /\ ~killed /\ recv_task = "idle"
    /\ LET vs == IF new_owner # <<>> THEN WatchersNamed(name) ELSE {}
       IN /\ \A v \in vs : h_gets[v] < MaxGets
          /\ h_gets' = [v \in Variants |-> IF v \in vs THEN h_gets[v] + 1 ELSE h_gets[v]]
          /\ h_emit' = (IF "fdo" \in vs THEN HostRegistration("fdo") ELSE <<>>)
                       \o (IF "kde" \in vs THEN HostRegistration("kde") ELSE <<>>)
    /\ h_last' = [NoHostMessage EXCEPT !.op = "name_owner_changed", !.name = name,
                                       !.new_owner = new_owner]
    /\ UNCHANGED <<h_items, it_status, it_variant, it_task, it_owner, it_handlers>>
    /\ UNCHANGED <<next_item, it_removed, it_announced, notHost>>
    /\ UNCHANGED itemState

\* (mutant) only the first identifier of the reply is registered.
FedIdsFirst(ids) == IF ids = <<>> THEN ids ELSE <<Head(ids)>>

\* The identifiers the Get callback passes to handle_new_item.
FedIds(ids) == ids

\* The reply to the host's Get arrives: on Ok the callback calls
\* handle_new_item for every identifier, with the variant of the Get.
HostGetReply(v, ok, ids) ==
    /\ ~killed /\ recv_task = "idle"
    /\ h_gets[v] > 0
    /\ ~ok => ids = <<>>
    /\ h_gets' = [h_gets EXCEPT ![v] = @ - 1]
    /\ SetItemState(FeedItems(ItemState, v, FedIds(ids)))
    /\ h_last' = [NoHostMessage EXCEPT !.op = "get_reply", !.v = v, !.ok = ok,
                                       !.ids = ids, !.fed = FedIds(ids)]
    /\ UNCHANGED <<it_owner, it_removed, it_announced, notHost>>
    /\ UNCHANGED itemState

\* StatusNotifierItemRegistered of variant v: handle_new_item.
ItemRegistered(v, id) ==
    /\ ~killed /\ recv_task = "idle"
    /\ SetItemState(NewItem(ItemState, v, id))
    /\ h_last' = [NoHostMessage EXCEPT !.op = "item_registered", !.v = v,
                                       !.ids = <<id>>, !.fed = <<id>>]
    /\ UNCHANGED <<h_gets, it_owner, it_removed, it_announced, notHost>>
    /\ UNCHANGED itemState

\* Menu of an item that has none, and the session Menu::new returns.
NoMenu == [open |-> FALSE, tree |-> ParseTree(EmptyLayout), revision |-> 0,
           next |-> 0, inflight |-> {}]
NewMenu(tree, revision) == [NoMenu EXCEPT !.open = TRUE, !.tree = tree,
                                          !.revision = revision]

\* A call that awaits its reply: AboutToShow ("about") or the GetLayout of
\* Menu::update_layout ("refresh"); id is the key in layout_updates, cb the
\* open_menu call whose callback the refresh carries (0: none).
PendingCall(kind, o, id, menu_id, cb) ==
    [kind |-> kind, o |-> o, id |-> id, menu_id |-> menu_id, cb |-> cb]

\* The Calls in Menu.layout_updates of an item, dropped with the Menu.
MenuCalls(o) == {k \in c_calls : k.kind = "refresh" /\ k.o = o}

\* The AddMatch or RemoveMatch of the two signal handlers of a Menu.
MenuMatches(o, member) ==
    LET kind == IF member = "AddMatch" THEN "call" ELSE "call_no_reply"
    IN <<Emit(kind, it_variant[o], member, <<"LayoutUpdated">>),
         Emit(kind, it_variant[o], member, <<"ItemsPropertiesUpdated">>)>>

\* (mutant) handle_removed_item tells the owner but leaves it in place.
OwnerKept(o) == it_owner[o]

\* Whether the item has an owner after `item.owner.swap(None)`.
OwnerAfterRemoval(o) == FALSE

\* StatusNotifierItemUnregistered: Host::handle_removed_item removes the item
\* from items, sets its status to Removed, takes the owner and tells it, and
\* drops the signal handlers (a RemoveMatch each) and the menu.
ItemUnregistered(v, id) ==
    /\ ~killed /\ recv_task = "idle"
    /\ LET o == h_items[id]
       IN IF o = 0
          THEN /\ h_emit' = <<>>
               /\ UNCHANGED <<h_items, it_status, it_owner, it_handlers, it_removed>>
               /\ UNCHANGED <<it_refetched, it_removed_cb, it_menu, c_calls, om_state>>
          ELSE /\ h_items' = [h_items EXCEPT ![id] = 0]
               /\ it_status' = [it_status EXCEPT ![o] = "Removed"]
               /\ it_owner' = [it_owner EXCEPT ![o] = OwnerAfterRemoval(o)]
               /\ it_removed_cb' = [it_removed_cb EXCEPT
                                      ![o] = @ + IF it_owner[o] THEN 1 ELSE 0]
               /\ it_handlers' = [it_handlers EXCEPT ![o] = 0]
               /\ it_removed' = it_removed \cup {o}
               /\ it_menu' = [it_menu EXCEPT ![o] = NoMenu]
               /\ c_calls' = c_calls \ MenuCalls(o)
               /\ om_state' = [c \in OpenIds |->
                                 IF \E k \in MenuCalls(o) : k.cb = c
                                 THEN "gone" ELSE om_state[c]]
               /\ h_emit' = [i \in 1..it_handlers[o] |->
                               Emit("call_no_reply", it_variant[o], "RemoveMatch",
                                    <<ItemSignals[i]>>)]
                            \o (IF it_menu[o].open THEN MenuMatches(o, "RemoveMatch")
                                ELSE <<>>)
    /\ h_last' = [NoHostMessage EXCEPT !.op = "item_unregistered", !.v = v,
                                       !.ids = <<id>>]
    /\ UNCHANGED <<h_gets, it_variant, it_task, next_item, it_announced, notHost>>
    /\ UNCHANGED <<it_props, rf_tasks, om_cb, it_late, it_first_menu>>
    /\ UNCHANGED <<it_refetched, it_failed, it_menu_res, n_changes>>

\* (variant) the task leaves the status of an item that is not New alone.
StatusAfterInitGuarded(o) == IF it_status[o] = "New" THEN "Announced" ELSE it_status[o]

\* The status the spawned task stores at its end: `*status = Announced`.
StatusAfterInit(o) == "Announced"

\* The end of the task spawned by handle_new_item, after the property fetches
\* and the menu's GetLayout have completed: if the status is New the host's
\* callback is called with the item (it may set an owner); the status is set.
ItemInitDone(o, sets_owner) ==
    /\ it_task[o] = "spawned"
    /\ it_task' = [it_task EXCEPT ![o] = "done"]
    /\ IF it_status[o] = "New"
       THEN /\ it_announced' = [it_announced EXCEPT ![o] = @ + 1]
            /\ it_owner' = [it_owner EXCEPT ![o] = sets_owner]
       ELSE /\ ~sets_owner
            /\ UNCHANGED <<it_announced, it_owner>>
    /\ it_status' = [it_status EXCEPT ![o] = StatusAfterInit(o)]
    /\ h_emit' = <<>>
    /\ h_last' = [NoHostMessage EXCEPT !.op = "init_done", !.v = it_variant[o]]
    /\ UNCHANGED <<h_items, h_gets, it_variant, it_handlers, next_item>>
    /\ UNCHANGED <<it_removed, notHost>>
    /\ UNCHANGED itemState

----------------------------------------------------------------------------
\* The item task and the menu session (src/src/sni/host/item.rs,
\* src/src/sni/host/menu.rs), step by step from one await to the next.

\* The callbacks of these kinds that are made for an item already removed.
LateOf(o, kinds) == IF o \in it_removed THEN {<<o, k>> : k \in kinds} ELSE {}

\* What the steps of the task and of the menu session leave alone of the
\* host's state.
hostRest == <<h_items, h_gets, it_variant, it_handlers, next_item, it_removed>>
hostItems == <<it_status, it_task, it_owner, it_announced>>

\* (mutant) the end of the task announces the item whatever its status.
FinalCallbacksAlways(o, menu_delta) ==
    {"new_item"} \cup (IF menu_delta # None THEN {"menu_changed"} ELSE {})

\* The callbacks the end of the task makes: Host.callback if the status is
\* New (handle_new_item of sni_proxy, which sets the owner) and then
\* menu_changed of that owner with the delta of the first tree, if any.
FinalCallbacks(o, menu_delta) ==
    IF it_status[o] = "New"
    THEN {"new_item"} \cup (IF menu_delta # None THEN {"menu_changed"} ELSE {})
    ELSE {}

\* The end of the task spawned by handle_new_item, under the status lock.
FinalBlock(o, menu_delta) ==
    LET cbs == FinalCallbacks(o, menu_delta)
        new == "new_item" \in cbs
    IN /\ it_announced' = [it_announced EXCEPT ![o] = @ + IF new THEN 1 ELSE 0]
       /\ it_owner' = [it_owner EXCEPT ![o] = IF new THEN TRUE ELSE @]
       /\ it_first_menu' = [it_first_menu EXCEPT
                              ![o] = IF "menu_changed" \in cbs /\ @ = "none"
                                     THEN "initial" ELSE @]
       /\ it_late' = it_late \cup LateOf(o, FinalCallbacks(o, menu_delta))
       /\ it_status' = [it_status EXCEPT ![o] = StatusAfterInit(o)]
       /\ it_task' = [it_task EXCEPT ![o] = "done"]

\* The first poll of the task: the Gets of Menu, ItemIsMenu and the thirteen
\* snapshot properties enter the queue; the task waits for the replies.
ItemTaskStart(o) ==
    /\ it_task[o] = "spawned"
    /\ it_task' = [it_task EXCEPT ![o] = "props"]
    /\ h_emit' = <<Emit("call", it_variant[o], "Get", <<"Menu">>),
                   Emit("call", it_variant[o], "Get", <<"ItemIsMenu">>)>>
                 \o [i \in DOMAIN SnapFields |->
                       Emit("call", it_variant[o], "Get", <<SnapFields[i]>>)]
    /\ h_last' = [NoHostMessage EXCEPT !.op = "task_start", !.o = o]
    /\ UNCHANGED <<hostRest, it_status, it_owner, it_announced, notHost, itemState>>

\* (mutant) a field whose Get failed gets a value all the same.
FetchedAll(f, failed) == "v0"

\* What the first fetch writes into a field: `$name.await.ok()` mapped to the
\* field's type, None for a Get that failed.
Fetched(f, failed) == IF f \in failed THEN "none" ELSE "v0"

\* The thirteen results are in: each field becomes the value or, for a Get
\* that failed, None, in one critical section.
ItemPropsFetched(o, failed) ==
    /\ it_task[o] = "props"
    /\ it_task' = [it_task EXCEPT ![o] = "is_menu"]
    /\ it_props' = [it_props EXCEPT ![o] =
                      [f \in DOMAIN @ |-> IF f = "is_menu" THEN @[f]
                                          ELSE Fetched(f, failed)]]
    /\ it_failed' = [it_failed EXCEPT ![o] = failed]
    /\ h_emit' = <<>>
    /\ h_last' = [NoHostMessage EXCEPT !.op = "props_fetched", !.o = o]
    /\ UNCHANGED <<hostRest, it_status, it_owner, it_announced, notHost>>
    /\ UNCHANGED <<it_menu, c_calls, rf_tasks, om_state, om_cb, it_late, it_first_menu>>
    /\ UNCHANGED <<it_refetched, it_removed_cb, it_menu_res, n_changes>>

\* The result of the ItemIsMenu Get: is_menu is true only for Ok(true).
ItemIsMenuFetched(o, res) ==
    /\ it_task[o] = "is_menu"
    /\ it_task' = [it_task EXCEPT ![o] = "menu"]
    /\ it_props' = [it_props EXCEPT
                      ![o]["is_menu"] = IF res = "true" THEN "true" ELSE "false"]
    /\ it_failed' = [it_failed EXCEPT
                       ![o] = @ \cup IF res = "err" THEN {"is_menu"} ELSE {}]
    /\ h_emit' = <<>>
    /\ h_last' = [NoHostMessage EXCEPT !.op = "is_menu_fetched", !.o = o]
    /\ UNCHANGED <<hostRest, it_status, it_owner, it_announced, notHost>>
    /\ UNCHANGED <<it_menu, c_calls, rf_tasks, om_state, om_cb, it_late, it_first_menu>>
    /\ UNCHANGED <<it_refetched, it_removed_cb, it_menu_res, n_changes>>

\* The result of the Menu Get: with a path Menu::new sends GetLayout(0, -1, [])
\* and the task waits; without one the task ends.
ItemMenuFetched(o, ok) ==
    /\ it_task[o] = "menu"
    /\ IF ok
       THEN /\ it_task' = [it_task EXCEPT ![o] = "layout"]
            /\ it_menu_res' = [it_menu_res EXCEPT ![o] = "asked"]
            /\ h_emit' = <<Emit("call", it_variant[o], "GetLayout", <<"0">>)>>
            /\ h_last' = [NoHostMessage EXCEPT !.op = "menu_fetched", !.o = o,
                                               !.ok = TRUE]
            /\ UNCHANGED <<it_status, it_owner, it_announced, it_late, it_first_menu>>
       ELSE /\ it_menu_res' = [it_menu_res EXCEPT ![o] = "missing"]
            /\ h_emit' = <<>>
            /\ h_last' = [NoHostMessage EXCEPT !.op = "menu_fetched", !.o = o,
                                               !.cbs = FinalCallbacks(o, None)]
            /\ FinalBlock(o, None)
    /\ UNCHANGED <<hostRest, notHost, it_props, it_menu, c_calls, rf_tasks, om_state>>
    /\ UNCHANGED <<om_cb, it_refetched, it_removed_cb, it_failed, n_changes>>

\* (variant) the task stores the Menu only in an item that was not removed.
StoredMenuIfTracked(o, menu) == IF it_status[o] = "Removed" THEN NoMenu ELSE menu

\* What the task stores in the item: `*item.menu.lock() = menu`.
StoredMenu(o, menu) == menu

\* The reply to the GetLayout of Menu::new: on an error there is no Menu; else
\* the two signal handlers are installed and the Menu with the parsed tree is
\* stored in the item; then the task ends.
ItemLayoutReply(o, ok, v, revision) ==
    /\ it_task[o] = "layout"
    /\ IF ok
       THEN /\ it_menu' = [it_menu EXCEPT
                                ![o] = StoredMenu(o, NewMenu(ParseTree(v), revision))]
            /\ it_menu_res' = [it_menu_res EXCEPT ![o] = "ok"]
            /\ h_emit' = MenuMatches(o, "AddMatch")
            /\ h_last' = [NoHostMessage EXCEPT
                            !.op = "layout_reply", !.o = o, !.ok = TRUE,
                            !.cbs = FinalCallbacks(o, Some(FullDelta(ParseTree(v))))]
            /\ FinalBlock(o, Some(FullDelta(ParseTree(v))))
       ELSE /\ v = EmptyLayout /\ revision = 0
            /\ it_menu' = [it_menu EXCEPT ![o] = NoMenu]
            /\ it_menu_res' = [it_menu_res EXCEPT ![o] = "failed"]
            /\ h_emit' = <<>>
            /\ h_last' = [NoHostMessage EXCEPT !.op = "layout_reply", !.o = o,
                                               !.cbs = FinalCallbacks(o, None)]
            /\ FinalBlock(o, None)
    /\ UNCHANGED <<hostRest, notHost, it_props, c_calls, rf_tasks, om_state>>
    /\ UNCHANGED <<om_cb, it_refetched, it_removed_cb, it_failed, n_changes>>

\* One of the six change signals of an item that holds its handlers: the
\* handler spawns a task.
ChangeSignal(o, sig) ==
    /\ ~killed /\ recv_task = "idle"
    /\ it_handlers[o] > 0
    /\ n_changes < MaxChanges
    /\ \E t \in RefetchIds : rf_tasks[t].pos = "none"
    /\ LET t == CHOOSE t \in RefetchIds : rf_tasks[t].pos = "none"
       IN rf_tasks' = [rf_tasks EXCEPT
                         ![t] = [o |-> o, sig |-> sig, pos |-> "spawned", late |-> FALSE]]
    /\ n_changes' = n_changes + 1
    /\ h_emit' = <<>>
    /\ h_last' = [NoHostMessage EXCEPT !.op = "change_signal", !.o = o, !.sig = sig]
    /\ UNCHANGED <<hostRest, hostItems, notHost>>
    /\ UNCHANGED <<it_props, it_menu, c_calls, om_state, om_cb, it_late, it_first_menu>>
    /\ UNCHANGED <<it_refetched, it_removed_cb, it_failed, it_menu_res>>

\* (mutant) every change signal re-fetches the icon properties.
RefetchedIcon(sig) == SignalProps("NewIcon")

\* The properties the task of a change signal gets.
Refetched(sig) == SignalProps(sig)

\* The first poll of a re-fetch task: its Gets enter the queue; late says
\* that the Gets of the item's first fetch entered it before.
RefetchStart(t) ==
    /\ rf_tasks[t].pos = "spawned"
    /\ rf_tasks' = [rf_tasks EXCEPT ![t].pos = "await",
                                    ![t].late = it_task[rf_tasks[t].o] # "spawned"]
    /\ h_emit' = [i \in DOMAIN Refetched(rf_tasks[t].sig) |->
                    Emit("call", it_variant[rf_tasks[t].o], "Get",
                         <<Refetched(rf_tasks[t].sig)[i]>>)]
    /\ h_last' = [NoHostMessage EXCEPT !.op = "refetch_start", !.o = rf_tasks[t].o,
                                       !.sig = rf_tasks[t].sig]
    /\ UNCHANGED <<hostRest, hostItems, notHost>>
    /\ UNCHANGED <<it_props, it_menu, c_calls, om_state, om_cb, it_late, it_first_menu>>
    /\ UNCHANGED <<it_refetched, it_removed_cb, it_failed, it_menu_res, n_changes>>

\* The results of a re-fetch task are in: its fields are written in one
\* critical section, then the owner, if there is one, is told.
RefetchDone(t, failed) ==
    /\ rf_tasks[t].pos = "await"
    /\ failed \subseteq Range(Refetched(rf_tasks[t].sig))
    /\ LET o == rf_tasks[t].o
           fields == Range(Refetched(rf_tasks[t].sig))
           cbs == IF it_owner[o] THEN {"property_changed"} ELSE {}
       IN /\ it_props' = [it_props EXCEPT ![o] =
                            [f \in DOMAIN @ |-> IF f \notin fields THEN @[f]
                                                ELSE IF f \in failed THEN "none" ELSE "v1"]]
          /\ it_late' = it_late \cup LateOf(o, cbs)
          /\ it_refetched' = it_refetched \cup
                                (IF rf_tasks[t].late THEN {<<o, f>> : f \in fields} ELSE {})
          /\ h_last' = [NoHostMessage EXCEPT !.op = "refetch_done", !.o = o,
                                             !.sig = rf_tasks[t].sig,
                                             !.cbs = cbs,
                                             !.prop = IF it_owner[o]
                                                      THEN Mutable(rf_tasks[t].sig)
                                                      ELSE ""]
    /\ rf_tasks' = [rf_tasks EXCEPT ![t] = NoRefetch]
    /\ h_emit' = <<>>
    /\ UNCHANGED <<hostRest, hostItems, notHost>>
    /\ UNCHANGED <<it_menu, c_calls, om_state, om_cb, it_first_menu>>
    /\ UNCHANGED <<it_removed_cb, it_failed, it_menu_res, n_changes>>

\* The menu id as the argument of a call.
MenuIdArg(menu_id) == <<IF menu_id = 0 THEN "0" ELSE "1">>

\* menu_changed of the owner for a delta that is not the first tree's.
MenuChangedLater(o, fires) ==
    /\ it_first_menu' = [it_first_menu EXCEPT
                           ![o] = IF fires /\ @ = "none" THEN "other" ELSE @]
    /\ it_late' = it_late \cup LateOf(o, IF fires THEN {"menu_changed"} ELSE {})

\* Menu::update_layout: the next key, a GetLayout(menu_id, -1, []) whose Call
\* is kept in layout_updates; cb is the open_menu call whose callback it
\* carries, menu the Menu and calls the pending calls before.
UpdateLayout(o, menu, calls, menu_id, cb) ==
    LET id == menu.next + 1
    IN /\ it_menu' = [it_menu EXCEPT
                         ![o] = [menu EXCEPT !.next = id, !.inflight = @ \cup {id}]]
       /\ c_calls' = calls \cup {PendingCall("refresh", o, id, menu_id, cb)}
       /\ h_emit' = <<Emit("call", it_variant[o], "GetLayout", MenuIdArg(menu_id))>>

\* (variant) A revision equal to the stored one counts as new.
IsNewerOrSame(stored, revision) == stored <= revision

\* The test of the LayoutUpdated handler: menu.revision < revision.
IsNewer(stored, revision) == stored < revision

\* The LayoutUpdated handler of a Menu: a newer revision is stored and the
\* layout of menu_id is asked for again.
LayoutUpdated(o, revision, menu_id) ==
    /\ ~killed /\ recv_task = "idle"
    /\ it_menu[o].open
    /\ IsNewer(it_menu[o].revision, revision) => it_menu[o].next < MaxLayouts
    /\ IF IsNewer(it_menu[o].revision, revision)
       THEN UpdateLayout(o, [it_menu[o] EXCEPT !.revision = revision], c_calls,
                         menu_id, 0)
       ELSE /\ h_emit' = <<>>
            /\ UNCHANGED <<it_menu, c_calls>>
    /\ h_last' = [NoHostMessage EXCEPT !.op = "layout_updated", !.o = o]
    /\ UNCHANGED <<hostRest, hostItems, notHost>>
    /\ UNCHANGED <<it_props, rf_tasks, om_state, om_cb, it_late, it_first_menu>>
    /\ UNCHANGED <<it_refetched, it_removed_cb, it_failed, it_menu_res, n_changes>>

\* An OwnedValue of a property diff: a string or a boolean; downcast_ref to
\* the other type fails.
Str(s) == [ty |-> "str", s |-> s, b |-> FALSE]
Bool(b) == [ty |-> "bool", s |-> <<>>, b |-> b]

\* (variant) A value of any type is taken for the type asked for.
DowncastAny(v, ty) == TRUE

\* OwnedValue::downcast_ref::<ty>() is Ok.
Downcast(v, ty) == v.ty = ty

\* The properties mapping of one entry of the changed list.
DiffProps(label, enabled, type) == [label |-> label, enabled |-> enabled, type |-> type]

\* An entry of the diff update_properties builds for one menu id: for each
\* name None (not in the diff), Some(None) (removed) or Some(Some(v)).
DiffEntry(menu_id, label, enabled, type) ==
    [menu_id |-> menu_id, label |-> label, enabled |-> enabled, type |-> type]

\* The first loop of update_properties: every changed name maps to Some(v);
\* a later entry of the same menu id replaces an earlier one.
RECURSIVE DiffChanged(_, _)
DiffChanged(changed, diff) ==
    IF changed = <<>> THEN diff
    ELSE LET c == Head(changed)
             some(v) == IF v = None THEN None ELSE Some(v)
         IN DiffChanged(Tail(changed),
                        MapInsert(diff,
                                  DiffEntry(c.menu_id, some(c.properties.label),
                                            some(c.properties.enabled),
                                            some(c.properties.type))))

\* The second loop: every removed name maps to None in the entry of its menu
\* id, which is created empty if there is none.
RECURSIVE DiffRemoved(_, _)
DiffRemoved(removed, diff) ==
    IF removed = <<>> THEN diff
    ELSE LET r == Head(removed)
             i == IndexOf(diff, r.menu_id)
             old == IF i = 0 THEN DiffEntry(r.menu_id, None, None, None) ELSE diff[i]
             none(key, v) == IF key \in r.keys THEN Some(None) ELSE v
         IN DiffRemoved(Tail(removed),
                        MapInsert(diff,
                                  DiffEntry(r.menu_id, none("label", old.label),
                                            none("enabled", old.enabled),
                                            none("type", old.type))))

\* The diff of Menu::update_properties.
BuildDiff(changed, removed) == DiffRemoved(removed, DiffChanged(changed, <<>>))

\* MenuProperties::apply_properties with the getter of a diff entry: a name
\* not in the diff leaves its field; a removed one, and a value of another
\* type, sets the default.
ApplyDiff(self, d) ==
    LET typed(v, ty) == v # None /\ Downcast(v[1], ty)
        l == IF d.label = None
             THEN [label |-> self.label, access_key |-> self.access_key]
             ELSE IF ~typed(d.label[1], "str")
                  THEN [label |-> <<>>, access_key |-> None]
                  ELSE DecodeLabel(d.label[1][1].s, <<>>, FALSE, self.access_key)
    IN [label |-> l.label, access_key |-> l.access_key,
        enabled |-> IF d.enabled = None THEN self.enabled
                    ELSE IF ~typed(d.enabled[1], "bool") THEN TRUE
                         ELSE d.enabled[1][1].b,
        separator |-> IF d.type = None THEN self.separator
                      ELSE IF ~typed(d.type[1], "str") THEN FALSE
                           ELSE d.type[1][1].s = Separator]

\* MenuTree::merge_property_tree: the tree afterwards and the delta.
RECURSIVE MergePropertyTree(_, _)
MergePropertyTree(self, diff) ==
    LET i == IndexOf(diff, self.menu_id)
        new == IF i = 0 THEN self.properties ELSE ApplyDiff(self.properties, diff[i])
        prop_delta == IF i = 0 THEN None ELSE MergeProperties(self.properties, new)
        ch == [j \in 1..Len(self.children) |-> MergePropertyTree(self.children[j], diff)]
        any_child_changed == \E j \in 1..Len(ch) : ch[j].delta # None
        tree == [menu_id |-> self.menu_id, properties |-> new,
                 children |-> [j \in 1..Len(ch) |-> ch[j].tree]]
    IN IF prop_delta = None /\ ~any_child_changed
       THEN [tree |-> tree, delta |-> None]
       ELSE [tree |-> tree,
             delta |-> Some(Delta(self.menu_id, prop_delta,
                                  IF any_child_changed
                                  THEN Some([j \in 1..Len(ch) |->
                                               Entry(self.children[j].menu_id,
                                                     ch[j].delta)])
                                  ELSE None))]

\* (mutant) the diff is merged directly whatever is in flight.
RefreshInsteadNever(menu) == FALSE

\* The test of the ItemsPropertiesUpdated handler:
\* `menu.layout_updates.is_not_empty()`.
RefreshInstead(menu) == menu.inflight # {}

\* The ItemsPropertiesUpdated handler of a Menu: with a layout query in flight
\* the diff is dropped and the whole layout asked for again; else the diff is
\* merged into the tree and the owner told of the delta.
PropertiesUpdated(o, changed, removed) ==
    /\ ~killed /\ recv_task = "idle"
    /\ it_menu[o].open
    /\ RefreshInstead(it_menu[o]) => it_menu[o].next < MaxLayouts
    /\ IF RefreshInstead(it_menu[o])
       THEN /\ UpdateLayout(o, it_menu[o], c_calls, 0, 0)
            /\ h_last' = [NoHostMessage EXCEPT !.op = "properties_updated", !.o = o,
                                               !.ok = (it_menu[o].inflight # {})]
            /\ UNCHANGED <<it_first_menu, it_late>>
       ELSE LET r == MergePropertyTree(it_menu[o].tree, BuildDiff(changed, removed))
                fires == r.delta # None /\ it_owner[o]
            IN /\ it_menu' = [it_menu EXCEPT ![o].tree = r.tree]
               /\ MenuChangedLater(o, fires)
               /\ h_last' = [NoHostMessage EXCEPT
                               !.op = "properties_updated", !.o = o,
                               !.ok = (it_menu[o].inflight # {}),
                               !.cbs = IF fires THEN {"menu_changed"} ELSE {}]
               /\ h_emit' = <<>>
               /\ UNCHANGED c_calls
    /\ UNCHANGED <<hostRest, hostItems, notHost, it_props, rf_tasks, om_state, om_cb>>
    /\ UNCHANGED <<it_refetched, it_removed_cb, it_failed, it_menu_res, n_changes>>

\* (variant) update_layout's callback invokes `cb` on an error too.
CallbackReachedAlways(ok) == TRUE

\* Whether the callback of Menu::update_layout gets to `cb()`: it returns
\* before that on an error.
CallbackReached(ok) == ok

\* (variant) The reply to one query clears the whole table.
InflightCleared(inflight, id) == {}

\* layout_updates.remove(&id) in the callback of a GetLayout.
InflightAfterReply(inflight, id) == inflight \ {id}

\* The reply to the GetLayout of update_layout arrives: the key leaves
\* layout_updates; an error ends the callback; else the parsed tree is merged
\* at its menu id, the owner is told of a delta, and the callback of open_menu
\* that came with the refresh is invoked.
RefreshReply(k, ok, v) ==
    /\ k \in c_calls /\ k.kind = "refresh"
    /\ ~ok => v = EmptyLayout
    /\ c_calls' = c_calls \ {k}
    /\ LET o == k.o
           tree == ParseTree(v)
           r == MergeNested(it_menu[o].tree, tree.menu_id, tree)
           fires == ok /\ r.delta # None /\ it_owner[o]
       IN IF it_menu[o].open
          THEN /\ it_menu' = [it_menu EXCEPT
                                ![o].inflight = InflightAfterReply(@, k.id),
                                ![o].tree = IF ok THEN r.tree ELSE @]
               /\ MenuChangedLater(o, fires)
               /\ om_cb' = [c \in OpenIds |->
                              om_cb[c] + IF c = k.cb /\ CallbackReached(ok) THEN 1 ELSE 0]
               /\ om_state' = [c \in OpenIds |->
                                 IF c = k.cb THEN "finished" ELSE om_state[c]]
               /\ h_last' = [NoHostMessage EXCEPT
                               !.op = "refresh_reply", !.o = o, !.ok = ok,
                               !.cbs = IF fires THEN {"menu_changed"} ELSE {}]
          ELSE /\ om_state' = [c \in OpenIds |->
                                 IF c = k.cb THEN "gone" ELSE om_state[c]]
               /\ h_last' = [NoHostMessage EXCEPT !.op = "refresh_reply", !.o = o,
                                                  !.ok = ok]
               /\ UNCHANGED <<it_menu, om_cb, it_first_menu, it_late>>
    /\ h_emit' = <<>>
    /\ UNCHANGED <<hostRest, hostItems, notHost, it_props, rf_tasks>>
    /\ UNCHANGED <<it_refetched, it_removed_cb, it_failed, it_menu_res, n_changes>>

\* SniItem::open_menu, called by the owner of an announced item: without a
\* menu it returns None; else AboutToShow(menu_id) is called.
OpenMenu(o, menu_id, c) ==
    /\ ~killed /\ recv_task = "idle"
    /\ it_announced[o] > 0
    /\ om_state[c] = "none"
    /\ IF it_menu[o].open
       THEN /\ om_state' = [om_state EXCEPT ![c] = "about"]
            /\ c_calls' = c_calls \cup {PendingCall("about", o, 0, menu_id, c)}
            /\ h_emit' = <<Emit("call", it_variant[o], "AboutToShow", MenuIdArg(menu_id))>>
       ELSE /\ om_state' = [om_state EXCEPT ![c] = "no_menu"]
            /\ h_emit' = <<>>
            /\ UNCHANGED c_calls
    /\ h_last' = [NoHostMessage EXCEPT !.op = "open_menu", !.o = o]
    /\ UNCHANGED <<hostRest, hostItems, notHost>>
    /\ UNCHANGED <<it_props, it_menu, rf_tasks, om_cb, it_late, it_first_menu>>
    /\ UNCHANGED <<it_refetched, it_removed_cb, it_failed, it_menu_res, n_changes>>

\* The reply to AboutToShow arrives: on an error or false the callback is
\* invoked; on true the layout of menu_id is asked for again with the
\* callback, if the item still has its menu.
AboutReply(k, res) ==
    /\ k \in c_calls /\ k.kind = "about"
    /\ IF res = "true"
       THEN IF it_menu[k.o].open
            THEN /\ it_menu[k.o].next < MaxLayouts
                 /\ UpdateLayout(k.o, it_menu[k.o], c_calls \ {k}, k.menu_id, k.cb)
                 /\ om_state' = [om_state EXCEPT ![k.cb] = "refresh"]
                 /\ UNCHANGED om_cb
            ELSE /\ om_state' = [om_state EXCEPT ![k.cb] = "gone"]
                 /\ c_calls' = c_calls \ {k}
                 /\ h_emit' = <<>>
                 /\ UNCHANGED <<it_menu, om_cb>>
       ELSE /\ om_state' = [om_state EXCEPT ![k.cb] = "finished"]
            /\ om_cb' = [om_cb EXCEPT ![k.cb] = @ + 1]
            /\ c_calls' = c_calls \ {k}
            /\ h_emit' = <<>>
            /\ UNCHANGED it_menu
    /\ h_last' = [NoHostMessage EXCEPT !.op = "about_reply", !.o = k.o,
                                       !.ok = (res # "err"), !.sig = res]
    /\ UNCHANGED <<hostRest, hostItems, notHost>>
    /\ UNCHANGED <<it_props, rf_tasks, it_late, it_first_menu>>
    /\ UNCHANGED <<it_refetched, it_removed_cb, it_failed, it_menu_res, n_changes>>

InitProgram ==
    /\ killed = FALSE
    /\ pending_replies = {}
    /\ queue = <<>>
    /\ kill_queue = <<>>
    /\ send_task = "idle"
    /\ recv_task = "idle"
    /\ signal_handlers = {}
    /\ sh_rule = [h \in HandlerIds |-> "none"]
    /\ disabled = [h \in HandlerIds |-> FALSE]
    /\ sh_handle = [h \in HandlerIds |-> "none"]
    /\ next_id = 0
    /\ rd_handlers = <<>>
    /\ objects = [p \in Paths |-> 0]
    /\ weak_objects = [p \in Paths |-> 0]
    /\ strong = [o \in ObjectIds |-> 0]
    /\ obj_path = [o \in ObjectIds |-> ""]
    /\ methods = [o \in ObjectIds |-> {}]
    /\ next_obj = 1
    /\ tokens = [t \in TokenIds |-> NoToken]
    /\ next_serial = 1
    /\ call = [s \in Serials |-> "none"]
    /\ ucall = 0
    /\ drain = {}
    /\ wire = <<>>
    /\ issued = <<>>
    /\ invoked = [s \in Serials |-> 0]
    /\ result = [s \in Serials |-> "none"]
    /\ late_cb = {}
    /\ kill_taken = {}
    /\ wire_at_kill = 0
    /\ post_kill = {}
    /\ sig_snap = {}
    /\ sig_log = <<>>
    /\ sh_late = {}
    /\ cb_after_kill = FALSE
    /\ mc_last = NoCall
    /\ pr_done = {}
    /\ mutex = FALSE
    /\ obj_mutex = FALSE
    /\ lpc = "idle"
    /\ lpath = "none"
    /\ lcb = <<>>
    /\ cb_locked = {}
    /\ cb_free = {}
    /\ w_items = [v \in Variants |-> {}]
    /\ w_hosts = [v \in Variants |-> {}]
    /\ w_props = [v \in Variants |-> [host |-> FALSE, items |-> <<>>]]
    /\ w_emit = <<>>
    /\ w_last = NoMessage
    /\ h_items = [id \in ItemIds |-> 0]
    /\ h_gets = [v \in Variants |-> 1]
    /\ h_emit = <<>>
    /\ h_last = NoHostMessage
    /\ it_status = [o \in ItemObjs |-> "none"]
    /\ it_variant = [o \in ItemObjs |-> ""]
    /\ it_task = [o \in ItemObjs |-> "none"]
    /\ it_owner = [o \in ItemObjs |-> FALSE]
    /\ it_handlers = [o \in ItemObjs |-> 0]
    /\ next_item = 1
    /\ it_removed = {}
    /\ it_announced = [o \in ItemObjs |-> 0]
    /\ it_props = [o \in ItemObjs |-> DefaultSnapshot]
    /\ it_menu = [o \in ItemObjs |-> NoMenu]
    /\ c_calls = {}
    /\ rf_tasks = [t \in RefetchIds |-> NoRefetch]
    /\ it_refetched = {}
    /\ b_rev = 0
    /\ b_reply = None
    /\ b_match = FALSE
    /\ b_routed = {}
    /\ b_lost = {}
    /\ om_state = [c \in OpenIds |-> "none"]
    /\ om_cb = [c \in OpenIds |-> 0]
    /\ it_late = {}
    /\ it_first_menu = [o \in ItemObjs |-> "none"]
    /\ it_removed_cb = [o \in ItemObjs |-> 0]
    /\ it_failed = [o \in ItemObjs |-> {}]
    /\ it_menu_res = [o \in ItemObjs |-> "none"]
    /\ n_changes = 0

\* The menu ids of the model.
MenuIds == 0..3

\* An entry of the renderer's Menu.items: absent, or a MenuItem as
\* apply_delta2 creates it.
NoRenderItem ==
    [present |-> FALSE, separator |-> FALSE, label |-> None, enabled |-> FALSE,
     submenu |-> None]
NewRenderItem == [NoRenderItem EXCEPT !.present = TRUE]
NoRenderItems == [k \in MenuIds |-> NoRenderItem]
NoExpect == [k \in MenuIds |-> None]

\* The property part of apply_delta2: the fields the delta has are stored; an
\* empty label is kept as None.
RenderProperties(item, p) ==
    IF p = None THEN item
    ELSE [item EXCEPT
            !.separator = IF p[1].separator = None THEN @ ELSE p[1].separator[1],
            !.label = IF p[1].label = None THEN @
                      ELSE IF p[1].label[1] = <<>> THEN None ELSE Some(p[1].label[1]),
            !.enabled = IF p[1].enabled = None THEN @ ELSE p[1].enabled[1]]

\* Menu::apply_delta2 of the renderer; s holds items, seen and remove. The
\* submenu of the item becomes the keys of the delta's children, in the
\* delta's order, and the children with a delta of their own are visited.
RECURSIVE ApplyDelta2(_, _)
RECURSIVE ApplyChildDeltas(_, _)
ApplyChildDeltas(s, children) ==
    IF children = <<>> THEN s
    ELSE ApplyChildDeltas(IF Head(children).delta = None THEN s
                          ELSE ApplyDelta2(s, Head(children).delta[1]),
                          Tail(children))
ApplyDelta2(s, delta) ==
    IF delta.menu_id \in s.seen THEN s
    ELSE LET id == delta.menu_id
             item == RenderProperties(IF s.items[id].present THEN s.items[id]
                                      ELSE NewRenderItem, delta.properties)
             s1 == [s EXCEPT !.seen = @ \cup {id}]
         IN IF delta.children = None THEN [s1 EXCEPT !.items[id] = item]
            ELSE LET children == delta.children[1]
                     gone == IF item.submenu = None THEN {}
                             ELSE {k \in Range(item.submenu[1]) : IndexOf(children, k) = 0}
                     s2 == [s1 EXCEPT !.remove = @ \cup gone]
                 IN IF children = <<>>
                    THEN [s2 EXCEPT !.items[id] = [item EXCEPT !.submenu = None]]
                    ELSE ApplyChildDeltas(
                            [s2 EXCEPT !.items[id] =
                                          [item EXCEPT !.submenu = Some(Keys(children))]],
                            children)

\* Menu::apply_delta of the renderer: the items dropped from a submenu are
\* removed at the end.
ApplyDelta(items, delta) ==
    LET s == ApplyDelta2([items |-> items, seen |-> {}, remove |-> {}], delta)
    IN [k \in MenuIds |-> IF k \in s.remove THEN NoRenderItem ELSE s.items[k]]

\* handle_sni_menu_changed: the delta the owner is told of, if any, is
\* applied to the renderer's menu.
MenuChanged(items, delta) == IF delta = None THEN items ELSE ApplyDelta(items, delta[1])

\* The child order of every node of a tree, by menu id, over what was known.
RECURSIVE Expect(_, _)
RECURSIVE ExpectChildren(_, _)
ExpectChildren(expect, children) ==
    IF children = <<>> THEN expect
    ELSE ExpectChildren(Expect(expect, Head(children)), Tail(children))
Expect(expect, tree) ==
    ExpectChildren([expect EXCEPT ![tree.menu_id] = Some(Keys(tree.children))],
                   tree.children)

\* No ItemsPropertiesUpdated was handled.
NoDiff == [changed |-> <<>>, removed |-> <<>>]

\* The program after construction: no menu session exists yet.
Init ==
    /\ InitProgram
    /\ m_tree = ParseTree(EmptyLayout)
    /\ m_resp = EmptyLayout
    /\ m_delta = None
    /\ m_prev = ParseTree(EmptyLayout)
    /\ m_count = 0
    /\ m_diff = NoDiff
    /\ r_items = NoRenderItems
    /\ r_expect = NoExpect

\* A menu session whose tree came from some initial GetLayout reply, and a
\* reply to a later GetLayout.
InitMirror ==
    /\ InitProgram
    /\ \E v \in RawRoots : m_tree = ParseTree(v) /\ m_prev = ParseTree(v)
    /\ m_resp \in Responses
    /\ m_delta = None
    /\ m_count = 0
    /\ m_diff = NoDiff
    /\ r_items = NoRenderItems
    /\ r_expect = NoExpect

----------------------------------------------------------------------------

\* The calls, the writer, the replies and the kill.
Next ==
    \/ CallAsync
    \/ \E s \in Serials : CallDetach(s)
    \/ \E s \in Serials : CallDrop(s)
    \/ SendSignal
    \/ CallNoReply
    \/ Kill
    \/ \E s \in Serials : KillDrain(s)
    \/ KillQueue
    \/ WriterSend
    \/ WriterFail
    \/ WriterKill
    \/ \E s \in Serials, type \in ReplyTypes : RecvReply(s, type)
    \/ RecvEnd

\* The signal side of the client: handlers, their handles, and dispatch.
NextSignals ==
    \/ \E rule \in Rules : HandleSignal(rule)
    \/ \E h \in HandlerIds : SignalDetach(h)
    \/ \E h \in HandlerIds : SignalDrop(h)
    \/ \E sig \in Rules : RecvSignal(sig)
    \/ RecvSignalStep
    \/ Kill
    \/ \E s \in Serials : KillDrain(s)
    \/ KillQueue
    \/ RecvEnd

SpecSignals == Init /\ [][NextSignals]_vars

\* The exported objects and the dispatch of inbound method calls.
NextObjects ==
    \/ \E p \in Paths : AddObj(p)
    \/ \E o \in ObjectIds : ObjDrop(o)
    \/ \E o \in ObjectIds, m \in Members : AddMethod(o, m)
    \/ \E p \in Paths, m \in Members \cup PropsMembers, no_reply, body_ok \in BOOLEAN :
          RecvMethodCall(p, m, no_reply, body_ok)
    \/ \E t \in TokenIds, kind \in {"reply", "err: handler"} : TokenSend(t, kind)
    \/ \E t \in TokenIds : TokenDrop(t)
    \/ Kill
    \/ RecvEnd

SpecObjects == Init /\ [][NextObjects]_vars

\* Both tables together: what enters, leaves and reads the signal-handler and
\* object tables, and the ways the connection is killed.
NextTables ==
    \/ \E rule \in Rules : HandleSignal(rule)
    \/ \E h \in HandlerIds : SignalDrop(h)
    \/ \E sig \in Rules : RecvSignal(sig)
    \/ RecvSignalStep
    \/ \E p \in Paths : AddObj(p)
    \/ \E o \in ObjectIds : ObjDrop(o)
    \/ \E o \in ObjectIds, m \in Members : AddMethod(o, m)
    \/ \E p \in Paths, m \in Members, no_reply, body_ok \in BOOLEAN :
          RecvMethodCall(p, m, no_reply, body_ok)
    \/ \E t \in TokenIds : TokenDrop(t)
    \/ Kill
    \/ RecvEnd

SpecTables == Init /\ [][NextTables]_vars

Spec == Init /\ [][Next]_vars

\* The same with call_async made by a caller that runs concurrently.
NextConcurrent ==
    \/ CallAsyncInsert
    \/ CallAsyncSend
    \/ \E s \in Serials : CallDetach(s)
    \/ \E s \in Serials : CallDrop(s)
    \/ SendSignal
    \/ CallNoReply
    \/ Kill
    \/ \E s \in Serials : KillDrain(s)
    \/ KillQueue
    \/ WriterSend
    \/ WriterFail
    \/ WriterKill
    \/ \E s \in Serials, type \in ReplyTypes : RecvReply(s, type)
    \/ RecvEnd

SpecConcurrent == Init /\ [][NextConcurrent]_vars

\* The critical sections: every path that calls a callback, and the user code
\* that puts callbacks into the tables.
NextLocks ==
    \/ UserCode /\ CallAsync
    \/ UserCode /\ \E rule \in Rules : HandleSignal(rule)
    \/ UserCode /\ \E h \in HandlerIds : SignalDrop(h)
    \/ UserCode /\ \E p \in Paths : AddObj(p)
    \/ UserCode /\ \E o \in ObjectIds, m \in Members : AddMethod(o, m)
    \/ UserCode /\ \E t \in TokenIds : TokenDrop(t)
    \/ lpc = "idle" /\ WriterSend
    \/ \E s \in Serials, type \in ReplyTypes : LockReply(s, type)
    \/ \E sig \in Rules : LockSignal(sig)
    \/ \E p \in Paths, m \in Members : LockCall(p, m)
    \/ \E by \in {"holder", "send"} : LockKill(by)
    \/ \E by \in {"send", "kill_queue"} : LockKillReply(by)
    \/ Unlock
    \/ LockMethods
    \/ UnlockMethods
    \/ InvokeTaken

SpecLocks == Init /\ [][NextLocks]_vars


----------------------------------------------------------------------------
\* The claims about calls.

IsPrefix(a, b) == Len(a) <= Len(b) /\ a = SubSeq(b, 1, Len(a))

Detached(s) == call[s] \in {"detached", "detached_dropped"}

\* C1: the messages handed to the transport are, in order, a prefix of the
\* messages in the order their operations put them into the outgoing queue,
\* and while the writer runs nothing between the two is lost or reordered.
C1_OutgoingFifo ==
    /\ IsPrefix(wire, issued)
    /\ send_task = "idle" => issued = wire \o queue

\* Three messages of different operations are on the wire, the first a call
\* whose reply has not been received.
C1_Witness ==
    /\ Len(wire) >= 3
    /\ wire[1].kind = "call" /\ invoked[wire[1].serial] = 0
    /\ \E i \in DOMAIN wire : wire[i].kind = "signal"
    /\ \E i \in DOMAIN wire : wire[i].kind = "call_no_reply"

\* C2 (as claimed): the callback of a call whose handle was dropped without
\* detach is never invoked after the drop.
C2_NoCallbackAfterDrop == late_cb = {}

\* C3: the callback of a detached call is never lost and never runs twice: it
\* is in pending_replies, or taken by kill() and about to run, or has run
\* exactly once (with the reply, Send or Killed); and once the connection is
\* killed and the kill loop and the kill queue are through, it has run.
C3_DetachedExactlyOnce ==
    \A s \in Serials : Detached(s) =>
        /\ (IF s \in pending_replies THEN 1 ELSE 0)
             + (IF s \in drain THEN 1 ELSE 0) + invoked[s] = 1
        /\ invoked[s] = 1 => result[s] \in {"Ok", "ErrorReply", "Send", "Killed"}
        /\ (killed /\ drain = {} /\ kill_queue = <<>>) => invoked[s] = 1

\* Two detached calls whose handles were dropped: one got its reply, the other
\* was failed by the kill.
C3_Witness ==
    \E s, u \in Serials :
        /\ call[s] = "detached_dropped" /\ invoked[s] = 1 /\ result[s] = "Ok"
        /\ call[u] = "detached_dropped" /\ invoked[u] = 1 /\ result[u] = "Killed"

\* C4: no callback is invoked more than once.
C4_AtMostOnce == \A s \in Serials : invoked[s] <= 1

\* A write failure, a reply and a kill have each delivered one callback, and
\* the kill loop and the kill queue are through.
C4_Witness ==
    /\ killed /\ drain = {} /\ kill_queue = <<>> /\ pending_replies = {}
    /\ \E s, u, v \in Serials :
        /\ invoked[s] = 1 /\ result[s] = "Send"
        /\ invoked[u] = 1 /\ result[u] = "Ok"
        /\ invoked[v] = 1 /\ result[v] = "Killed"

\* C5: every callback that was in pending_replies when kill() ran is either
\* still to be called by the kill loop, or was called exactly once, with
\* Killed; and nothing is handed to the transport after the kill.
C5_KillCascade ==
    /\ \A s \in kill_taken :
         \/ s \in drain /\ invoked[s] = 0
         \/ s \notin drain /\ invoked[s] = 1 /\ result[s] = "Killed"
    /\ killed => Len(wire) = wire_at_kill

\* Three calls were pending at the kill, all three were failed, and a message
\* is left unsent in the queue.
C5_Witness ==
    /\ Cardinality(kill_taken) >= 3
    /\ drain = {}
    /\ queue # <<>>

\* C6: a call whose enqueue finds the connection killed is never written to
\* the transport; its callback runs at most once and only with Killed; and
\* while its handle is kept or detached the callback has run, or is about to
\* be run by the kill loop, or is in pending_replies with its message in the
\* kill queue, whose task will replay it as Killed.
C6_CallAfterKill ==
    \A s \in post_kill :
        /\ \A i \in DOMAIN wire : wire[i].serial # s
        /\ invoked[s] <= 1
        /\ invoked[s] = 1 => result[s] = "Killed"
        /\ call[s] # "dropped" =>
             \/ invoked[s] = 1
             \/ s \in drain
             \/ s \in pending_replies /\ \E i \in DOMAIN kill_queue : kill_queue[i].serial = s

\* kill() ran between the insertion and the enqueue of a call, took the call's
\* callback and failed it; the kill queue has replayed the message since.
C6_Witness ==
    \E s \in post_kill \cap kill_taken :
        /\ call[s] = "held" /\ invoked[s] = 1 /\ result[s] = "Killed"
        /\ kill_queue = <<>>

\* The watcher and the messages it handles.
NextWatcher ==
    \/ \E v \in Variants, arg \in ItemArgs, sender \in Senders \cup {NoSender} :
          RegisterItem(v, arg, sender)
    \/ \E v \in Variants, service \in Senders : RegisterHost(v, service)
    \/ \E name \in BusNames, new_owner \in {<<>>, <<"a">>} :
          NameOwnerChanged(name, new_owner)
    \/ \E v \in Variants,
          member \in {"RegisteredStatusNotifierItems", "IsStatusNotifierHostRegistered"} :
          WatcherGet(v, member)

SpecWatcher == Init /\ [][NextWatcher]_vars

\* The lists of identifiers a watcher's Get reply carries.
IdLists == {<<>>} \cup {<<i>> : i \in ItemIds} \cup {<<i, j>> : i, j \in ItemIds}

\* The host and the messages it handles.
NextHost ==
    \/ \E name \in BusNames, new_owner \in {<<>>, <<"a">>} :
          HostNameOwnerChanged(name, new_owner)
    \/ \E v \in Variants, ok \in BOOLEAN, ids \in IdLists : HostGetReply(v, ok, ids)
    \/ \E v \in Variants, id \in ItemIds : ItemRegistered(v, id)
    \/ \E v \in Variants, id \in ItemIds : ItemUnregistered(v, id)
    \/ \E o \in ItemObjs, sets_owner \in BOOLEAN : ItemInitDone(o, sets_owner)

SpecHost == Init /\ [][NextHost]_vars

\* Menu::update_properties on the mirror: the diff built from the two lists of
\* an ItemsPropertiesUpdated is merged into the tree.
UpdateProperties(changed, removed) ==
    /\ m_count < MaxMerges
    /\ LET r == MergePropertyTree(m_tree, BuildDiff(changed, removed))
       IN /\ m_tree' = r.tree
          /\ m_delta' = r.delta
    /\ m_prev' = m_tree
    /\ m_count' = m_count + 1
    /\ m_diff' = [changed |-> changed, removed |-> removed]
    /\ UNCHANGED <<m_resp, r_items, r_expect, notMirror>>

\* The property diffs of the model: for the root 0 or its child 1, one
\* property or all three changed, to a value of the right or of another type,
\* and one or all removed.
DiffValues ==
    {DiffProps(Some(l), None, None) :
        l \in {Str(<<"y">>), Str(<<"_", "y">>), Str(<<"a", "_", "_", "b">>), Bool(TRUE)}}
    \cup {DiffProps(None, Some(e), None) : e \in {Bool(TRUE), Bool(FALSE), Str(<<"y">>)}}
    \cup {DiffProps(None, None, Some(s)) : s \in {Str(Separator), Str(<<"y">>), Bool(TRUE)}}
    \cup {DiffProps(Some(Str(<<"y">>)), Some(Bool(FALSE)), Some(Str(Separator)))}
DiffChangedLists ==
    {<<>>} \cup {<<[menu_id |-> i, properties |-> q]>> : i \in {0, 1}, q \in DiffValues}
DiffRemovedLists ==
    {<<>>} \cup {<<[menu_id |-> i, keys |-> ks]>> :
                    i \in {0, 1}, ks \in {{"label"}, {"enabled", "type"}}}
DiffRawProps ==
    {RawPropsOf(Some(<<"x">>), None, None),
     RawPropsOf(Some(<<"_", "x">>), Some(FALSE), Some(Separator))}
DiffLayouts == {Layout(0, q, <<Layout(1, r, <<>>)>>) : q, r \in DiffRawProps}

\* A menu session whose tree came from an initial GetLayout reply.
InitDiff ==
    /\ InitProgram
    /\ m_resp \in DiffLayouts
    /\ m_tree = ParseTree(m_resp) /\ m_prev = m_tree
    /\ m_delta = None
    /\ m_count = 0
    /\ m_diff = NoDiff
    /\ r_items = NoRenderItems
    /\ r_expect = NoExpect

\* ItemsPropertiesUpdated signals merged into the mirror, one after another.
NextDiff ==
    \E changed \in DiffChangedLists, removed \in DiffRemovedLists :
        UpdateProperties(changed, removed)

SpecDiff == InitDiff /\ [][NextDiff]_vars

\* The reply to a GetLayout of update_layout with the renderer behind the
\* mirror: the reply is merged and the delta applied by the renderer.
RenderLayout(v) ==
    /\ m_count < MaxMerges
    /\ LET tree == ParseTree(v)
           r == MergeNested(m_tree, tree.menu_id, tree)
       IN /\ m_tree' = r.tree
          /\ m_delta' = r.delta
          /\ r_items' = MenuChanged(r_items, r.delta)
          /\ r_expect' = IF r.found THEN Expect(r_expect, tree) ELSE r_expect
    /\ m_resp' = v
    /\ m_prev' = m_tree
    /\ m_count' = m_count + 1
    /\ UNCHANGED <<m_diff, notMirror>>

\* ItemsPropertiesUpdated with no query in flight and the renderer behind the
\* mirror.
RenderPropertyDiff(changed, removed) ==
    /\ m_count < MaxMerges
    /\ LET r == MergePropertyTree(m_tree, BuildDiff(changed, removed))
       IN /\ m_tree' = r.tree
          /\ m_delta' = r.delta
          /\ r_items' = MenuChanged(r_items, r.delta)
    /\ m_prev' = m_tree
    /\ m_count' = m_count + 1
    /\ m_diff' = [changed |-> changed, removed |-> removed]
    /\ UNCHANGED <<m_resp, r_expect, notMirror>>

\* The property diffs sent to a session with a renderer: a new label for one
\* of the children.
RenderChanged ==
    {<<[menu_id |-> i, properties |-> DiffProps(Some(Str(<<"y">>)), None, None)]>> :
        i \in {1, 2}}

\* The replies sent to a session with a renderer: those of the mirror with
\* one value for the properties of the root.
RenderRoots == {Layout(0, RawProps(Some(<<"x">>), None), ch) : ch \in RawRootChildren}
RenderResponses == RenderRoots \cup RawChild1 \cup RawChild2

\* A session whose first tree the renderer got as a full delta.
InitRender ==
    /\ InitProgram
    /\ m_resp \in RenderRoots
    /\ m_tree = ParseTree(m_resp) /\ m_prev = m_tree
    /\ m_delta = Some(FullDelta(m_tree))
    /\ m_count = 0
    /\ m_diff = NoDiff
    /\ r_items = ApplyDelta(NoRenderItems, FullDelta(m_tree))
    /\ r_expect = Expect(NoExpect, m_tree)

\* The deltas of a session reach the renderer one after another.
NextRender ==
    \/ \E v \in RenderResponses : RenderLayout(v)
    \/ \E changed \in RenderChanged : RenderPropertyDiff(changed, <<>>)

SpecRender == InitRender /\ [][NextRender]_vars

\* The remote menu answers the GetLayout of Menu::new with its revision.
RemoteReply(o) ==
    /\ it_task[o] = "layout" /\ b_reply = None
    /\ b_reply' = Some(b_rev)
    /\ UNCHANGED <<b_rev, b_match, b_routed, b_lost>>
    /\ UNCHANGED <<bussyState, watcherState, hostState, mirrorState, itemState>>

\* The remote menu changes its layout and emits LayoutUpdated with the new
\* revision; the bus sends the signal on to the client only if the client's
\* match rule has reached it.
RemoteChange ==
    /\ b_rev <= MaxRevision
    /\ b_rev' = b_rev + 1
    /\ b_routed' = IF b_match THEN b_routed \cup {b_rev + 1} ELSE b_routed
    /\ b_lost' = IF ~b_match /\ b_reply # None THEN b_lost \cup {b_rev + 1} ELSE b_lost
    /\ UNCHANGED <<b_reply, b_match>>
    /\ UNCHANGED <<bussyState, watcherState, hostState, mirrorState, itemState>>

\* The AddMatch that handle_messages sent for LayoutUpdated reaches the bus.
BusAddMatch(o) ==
    /\ it_menu[o].open /\ ~b_match
    /\ b_match' = TRUE
    /\ UNCHANGED <<b_rev, b_reply, b_routed, b_lost>>
    /\ UNCHANGED <<bussyState, watcherState, hostState, mirrorState, itemState>>

\* The next LayoutUpdated the client reads: signals arrive in the order they
\* were emitted, each once, so it is the least routed revision above the
\* last one handled.
NextRouted(o, revision) ==
    /\ revision \in b_routed /\ revision > it_menu[o].revision
    /\ \A r \in b_routed : r > it_menu[o].revision => revision <= r

\* A reply merged into the mirror, and merged again.
NextMirror == MergeResponse

SpecMirror == InitMirror /\ [][NextMirror]_vars

\* The inputs of the item model: one identifier of one watcher, so that an
\* item registered again after its removal is a second SniItem; the Gets that
\* fail in the first fetch; root layouts; the diffs of ItemsPropertiesUpdated.
ItemVariant == "fdo"
ItemId == <<"a">>
FailSets == {{}, {"title"}, {SnapFields[i] : i \in DOMAIN SnapFields}}
ItemLayouts == {Layout(0, q, <<>>) : q \in RawPropsSet}
ChangedSets ==
    {<<>>, <<[menu_id |-> 0, properties |-> DiffProps(Some(Str(<<"y">>)), None, None)]>>}
RemovedSets == {<<>>, <<[menu_id |-> 0, keys |-> {"label"}]>>}

\* The steps of an item's life apart from those of its menu session: it is
\* registered once and unregistered, its task runs, change signals arrive and
\* are served. fails are the sets of Gets that may fail in the first fetch,
\* sigs the change signals, layouts the replies to the first GetLayout.
ItemSteps(fails, sigs, layouts) ==
    \/ next_item = 1 /\ ItemRegistered(ItemVariant, ItemId)
    \/ ItemUnregistered(ItemVariant, ItemId)
    \/ \E o \in ItemObjs : ItemTaskStart(o)
    \/ \E o \in ItemObjs, failed \in fails : ItemPropsFetched(o, failed)
    \/ \E o \in ItemObjs, res \in {"true", "false", "err"} : ItemIsMenuFetched(o, res)
    \/ \E o \in ItemObjs, ok \in BOOLEAN : ItemMenuFetched(o, ok)
    \/ \E o \in ItemObjs, ok \in BOOLEAN, v \in layouts \cup {EmptyLayout},
          revision \in 0..MaxRevision : ItemLayoutReply(o, ok, v, revision)
    \/ \E o \in ItemObjs, sig \in sigs : ChangeSignal(o, sig)
    \/ \E t \in RefetchIds : RefetchStart(t)
    \/ \E t \in RefetchIds :
          \E failed \in (IF rf_tasks[t].pos = "await"
                         THEN SUBSET SignalFields(rf_tasks[t].sig) ELSE {}) :
             RefetchDone(t, failed)

\* The steps of a menu session: its two signals, the replies to its layout
\* queries, open_menu and the reply to AboutToShow.
MenuSteps ==
    \/ \E o \in ItemObjs, revision \in 0..MaxRevision + 1 : LayoutUpdated(o, revision, 0)
    \/ \E o \in ItemObjs, changed \in ChangedSets, removed \in RemovedSets :
          PropertiesUpdated(o, changed, removed)
    \/ \E k \in c_calls, ok \in BOOLEAN, v \in ItemLayouts \cup {EmptyLayout} :
          RefreshReply(k, ok, v)
    \/ \E o \in ItemObjs, c \in OpenIds : OpenMenu(o, 0, c)
    \/ \E k \in c_calls, res \in {"true", "false", "err"} : AboutReply(k, res)

\* An item with every change signal and every way the first fetch fails.
NextItem == ItemSteps(FailSets, Range(ItemSignals), ItemLayouts)

SpecItem == Init /\ [][NextItem]_vars

\* An item with its menu session.
NextMenu ==
    \/ ItemSteps({{}}, {"NewTitle"}, ItemLayouts)
    \/ MenuSteps

SpecMenu == Init /\ [][NextMenu]_vars

\* The opening of a menu session against a remote menu that changes.
NextOpen ==
    \/ next_item = 1 /\ ItemRegistered(ItemVariant, ItemId)
    \/ \E o \in ItemObjs : ItemTaskStart(o)
    \/ \E o \in ItemObjs : ItemPropsFetched(o, {})
    \/ \E o \in ItemObjs, res \in {"true", "false", "err"} : ItemIsMenuFetched(o, res)
    \/ \E o \in ItemObjs, ok \in BOOLEAN : ItemMenuFetched(o, ok)
    \/ \E o \in ItemObjs : RemoteReply(o)
    \/ RemoteChange
    \/ \E o \in ItemObjs, v \in ItemLayouts :
          b_reply # None /\ ItemLayoutReply(o, TRUE, v, b_reply[1])
    \/ \E o \in ItemObjs : BusAddMatch(o)
    \/ \E o \in ItemObjs, revision \in 1..MaxRevision + 1 :
          NextRouted(o, revision) /\ LayoutUpdated(o, revision, 0)
    \/ \E k \in c_calls, ok \in BOOLEAN, v \in ItemLayouts \cup {EmptyLayout} :
          RefreshReply(k, ok, v)

SpecOpen == Init /\ [][NextOpen]_vars

----------------------------------------------------------------------------
\* The claims about signal handlers and exported objects.

\* C7: the killed flag is never cleared; while it is set the signal-handler
\* table and the object table are empty; and no signal callback and no method
\* handler is invoked while it is set.
C7_KilledTerminal ==
    /\ [][killed => killed']_vars
    /\ [](killed => /\ signal_handlers = {}
                    /\ \A p \in Paths : objects[p] = 0
                    /\ ~cb_after_kill)

\* After the kill handle_signal was called (its AddMatch went to the kill
\* queue), add_obj made an object that weak_objects does not know, and the
\* reader, which was running, met a method call and returned.
C7_Witness ==
    /\ killed
    /\ \E h \in HandlerIds : sh_handle[h] = "held" /\ post_kill # {}
    /\ \E o \in ObjectIds : strong[o] > 0 /\ weak_objects[obj_path[o]] # o
    /\ mc_last.outcome = "killed"

C9_DroppedHandlerSkipped ==
    /\ sh_late = {}
    /\ \A h \in HandlerIds : sh_handle[h] = "dropped" =>
          \E i \in DOMAIN issued : issued[i].kind = "RemoveMatch" /\ issued[i].arg = h

\* A handler was snapshotted for a signal, its handle was dropped after another
\* handler of the same dispatch had run, and the dispatch ended without it.
C9_Witness ==
    /\ recv_task = "idle" /\ ~killed
    /\ Len(sig_log) >= 1
    /\ \E h \in sig_snap : sh_handle[h] = "dropped" /\ h \notin Range(sig_log)

\* C10: on a live connection a path is in the objects table exactly while a
\* handle for it is live, all live handles of a path are handles of the one
\* object in the table (add_obj returned it again), and an inbound method call
\* gets the "Object does not exist" error exactly when no handle is live.
C10_ExportedWhileLive ==
    /\ ~killed =>
          \A p \in Paths :
              /\ objects[p] # 0 <=> LiveHandles(p) > 0
              /\ objects[p] # 0 =>
                    /\ weak_objects[p] = objects[p]
                    /\ strong[objects[p]] = LiveHandles(p)
    /\ mc_last.outcome \notin {"none", "killed"} =>
          (mc_last.outcome = "no_object" <=> mc_last.live = 0)
    /\ mc_last.outcome = "no_object" =>
          \E i \in DOMAIN issued : issued[i].kind = "err: Object does not exist"

\* An object was exported, add_obj returned it a second time, both handles
\* were dropped, and a method call to the path was then answered with the
\* error; the path was exported again by a new object.
C10_Witness ==
    /\ ~killed
    /\ mc_last.outcome = "no_object" /\ mc_last.live = 0
    /\ next_obj > 2
    /\ \E p \in Paths : objects[p] = 2 /\ strong[2] = 2

----------------------------------------------------------------------------
\* The claims about replies to inbound calls, write failures and locks.

\* C11 (as claimed): for every inbound method call that expects a reply exactly
\* one reply is enqueued over the life of its PendingReply: never more than one
\* while the handler holds the token, and exactly one when it is dropped.
C11_ExactlyOneReply ==
    /\ \A t \in TokenIds :
          (tokens[t].live /\ ~tokens[t].no_reply) => tokens[t].sent <= 1
    /\ pr_done \subseteq {1}

\* C12: when the transport rejects the write of message M, the callback of M,
\* if M has one pending, is invoked with Send in that step and the connection
\* is not yet killed by it; the writer's next step kills the connection and
\* takes every pending callback; each of those is failed with Killed once the
\* kill loop is through; and no callback gets both Send and Killed.
C12_WriteFailure ==
    /\ [](/\ \A s \in Serials :
               result[s] = "Send" => invoked[s] = 1 /\ send_task # "idle"
          /\ send_task = "done" => killed
          /\ \A s \in kill_taken : result[s] # "Send"
          /\ (send_task = "done" /\ drain = {}) =>
                \A s \in kill_taken : invoked[s] = 1 /\ result[s] = "Killed")
    /\ [][/\ (send_task = "idle" /\ send_task' = "failed") =>
               /\ killed' = killed
               /\ Head(queue).serial \in pending_replies =>
                     /\ invoked'[Head(queue).serial] = 1
                     /\ result'[Head(queue).serial] = "Send"
          /\ (send_task = "failed" /\ send_task' # "failed") =>
               /\ send_task' = "done"
               /\ killed'
               /\ pending_replies' = {}
               /\ kill_taken' = kill_taken \cup pending_replies]_vars

\* A write failed for a call whose handle is held, its callback got Send, the
\* writer then killed the connection, and another call pending at that kill
\* got Killed.
C12_Witness ==
    /\ send_task = "done" /\ drain = {}
    /\ \E s, u \in Serials :
          /\ result[s] = "Send" /\ call[s] = "held"
          /\ u \in kill_taken /\ result[u] = "Killed"
          /\ Len(wire) = 0

CallbackPaths == {"reply", "signal", "call", "kill", "send", "kill_queue"}

\* C13: no reply callback, signal callback or method handler is called while
\* the table mutex or an object's methods mutex is held, on any of the paths
\* reply dispatch, signal dispatch, inbound call dispatch, kill, write failure
\* and kill queue; and user code never runs while one is held.
C13_NoCallbackUnderLock ==
    /\ cb_locked = {}
    /\ cb_free \subseteq CallbackPaths
    /\ lpc = "open" => ~mutex /\ ~obj_mutex
    /\ ~(mutex /\ obj_mutex)

\* Five of the six paths, the signal and inbound-call dispatch among them,
\* have taken a mutex, released it and called a callback (the four paths that
\* call reply callbacks need a call each, one more than MaxSerial).
C13_Witness ==
    /\ Cardinality(cb_free) >= 5
    /\ lpc = "idle"

----------------------------------------------------------------------------
\* The claims about the watcher.

\* How often w_emit holds a message of this kind, variant, member and argument.
Emitted(kind, v, member, arg) ==
    Cardinality({i \in DOMAIN w_emit : w_emit[i] = Emit(kind, v, member, arg)})

\* How often w_emit holds a message of this kind and member, on any variant.
EmittedMember(kind, member) ==
    Cardinality({i \in DOMAIN w_emit : w_emit[i].kind = kind /\ w_emit[i].member = member})

\* C14: RegisterStatusNotifierItem(arg) from sender s resolves the item as arg
\* (freedesktop), s followed by arg when arg starts with "/" (KDE), arg followed
\* by "/StatusNotifierItem" otherwise (KDE); sender "a" and arg "/S" give
\* "a/S"; and that identifier is what is inserted and what the
\* StatusNotifierItemRegistered signal carries.
C14_ItemIdentifier ==
    (w_last.op = "register_item" /\ w_last.sender # NoSender) =>
        LET expected == IF w_last.v = "fdo" THEN w_last.arg
                        ELSE IF Head(w_last.arg) = "/" THEN w_last.sender \o w_last.arg
                        ELSE w_last.arg \o <<"/", "S">>
        IN /\ w_last.id = expected
           /\ expected \in w_items[w_last.v]
           /\ (w_last.v = "kde" /\ w_last.sender = <<"a">> /\ w_last.arg = <<"/", "S">>)
                 => w_last.id = <<"a", "/", "S">>
           /\ w_last.new =>
                 Emitted("signal", w_last.v, "StatusNotifierItemRegistered", expected) = 1
           /\ EmittedMember("signal", "StatusNotifierItemRegistered")
                 = Emitted("signal", w_last.v, "StatusNotifierItemRegistered", expected)

\* The KDE watcher registered the path "/S" of sender "a" as a new item.
C14_Witness ==
    /\ w_last.op = "register_item" /\ w_last.v = "kde"
    /\ w_last.sender = <<"a">> /\ w_last.arg = <<"/", "S">>
    /\ w_last.new
    /\ <<"a", "/", "S">> \in w_items["kde"]
    /\ w_items["fdo"] # {}

\* C15: a registration of an identifier that is not yet in the variant's set
\* sends exactly one StatusNotifierItemRegistered with it on the variant's
\* interface and one update of RegisteredStatusNotifierItems; a registration
\* of an identifier already in the set sends neither; both send the reply, and
\* nothing else is sent.
C15_RegisteredOnce ==
    w_last.op = "register_item" =>
        LET n == IF w_last.new THEN 1 ELSE 0
        IN /\ EmittedMember("signal", "StatusNotifierItemRegistered") = n
           /\ Emitted("signal", w_last.v, "StatusNotifierItemRegistered", w_last.id) = n
           /\ EmittedMember("prop", "RegisteredStatusNotifierItems") = n
           /\ Emitted("prop", w_last.v, "RegisteredStatusNotifierItems", <<>>) = n
           /\ Emitted("reply", w_last.v, "", <<>>) = 1
           /\ Len(w_emit) = 2 * n + 1

\* An identifier that was already registered was registered again: the set
\* holds it, and only the reply was sent.
C15_Witness ==
    /\ w_last.op = "register_item" /\ ~w_last.new
    /\ w_last.id \in w_items[w_last.v]
    /\ Cardinality(w_items[w_last.v]) >= 2
    /\ Len(w_emit) = 1

\* C16: for each variant the property IsStatusNotifierHostRegistered is true
\* iff the variant's host set is not empty; a Get serves that value.
C16_HostProperty ==
    /\ \A v \in Variants : w_props[v].host <=> w_hosts[v] # {}
    /\ (w_last.op = "get" /\ w_last.arg = <<"IsStatusNotifierHostRegistered">>) =>
          (w_last.first <=> w_hosts[w_last.v] # {})

\* The last host of one variant went away while the other variant kept one.
C16_Witness ==
    /\ w_last.op = "name_owner_changed"
    /\ Emitted("prop", "kde", "IsStatusNotifierHostRegistered", <<>>) = 1
    /\ w_hosts["kde"] = {} /\ ~w_props["kde"].host
    /\ w_hosts["fdo"] # {} /\ w_props["fdo"].host

\* C17: for each variant the property RegisteredStatusNotifierItems holds
\* exactly the identifiers of the variant's item set, each once; a Get serves
\* that list.
C17_ItemsProperty ==
    /\ \A v \in Variants :
          /\ Range(w_props[v].items) = w_items[v]
          /\ Len(w_props[v].items) = Cardinality(w_items[v])
    /\ (w_last.op = "get" /\ w_last.arg = <<"RegisteredStatusNotifierItems">>) =>
          Range(w_last.served) = w_items[w_last.v]

\* A Get served a list of two items after one of three was removed.
C17_Witness ==
    /\ w_last.op = "get" /\ w_last.arg = <<"RegisteredStatusNotifierItems">>
    /\ w_last.v = "fdo"
    /\ Len(w_last.served) = 2
    /\ <<"a">> \notin w_items["fdo"]

\* C18: NameOwnerChanged(name, _, "") removes from the freedesktop set the item
\* equal to name and from the KDE set every item that starts with name, sends
\* exactly one StatusNotifierItemUnregistered per removed item, on its
\* interface and with its identifier, and no other, and removes name from both
\* host sets; with a new owner it changes nothing and sends nothing.
C18_NameOwnerChanged ==
    [][w_last'.op = "name_owner_changed" =>
         LET name == w_last'.arg
             fgone == w_items["fdo"] \cap {name}
             kgone == {i \in w_items["kde"] :
                          Len(name) <= Len(i) /\ SubSeq(i, 1, Len(name)) = name}
         IN IF w_last'.sender # <<>>
            THEN /\ UNCHANGED <<w_items, w_hosts, w_props>>
                 /\ w_emit' = <<>>
            ELSE /\ w_items' = [v \in Variants |->
                                  w_items[v] \ (IF v = "fdo" THEN fgone ELSE kgone)]
                 /\ w_hosts' = [v \in Variants |-> w_hosts[v] \ {name}]
                 /\ \A i \in fgone :
                       Cardinality({k \in DOMAIN w_emit' : w_emit'[k] =
                          Emit("signal", "fdo", "StatusNotifierItemUnregistered", i)}) = 1
                 /\ \A i \in kgone :
                       Cardinality({k \in DOMAIN w_emit' : w_emit'[k] =
                          Emit("signal", "kde", "StatusNotifierItemUnregistered", i)}) = 1
                 /\ Cardinality({k \in DOMAIN w_emit' :
                       w_emit'[k].member = "StatusNotifierItemUnregistered"})
                    = Cardinality(fgone) + Cardinality(kgone)
      ]_vars

\* The peer "a" went away: the freedesktop item "a" and the KDE items "a/S" and
\* "ab/S" were removed with three signals, and the host "a" of both variants.
C18_Witness ==
    /\ w_last.op = "name_owner_changed" /\ w_last.arg = <<"a">> /\ w_last.sender = <<>>
    /\ EmittedMember("signal", "StatusNotifierItemUnregistered") = 3
    /\ Emitted("signal", "kde", "StatusNotifierItemUnregistered", <<"a", "b", "/", "S">>) = 1
    /\ EmittedMember("prop", "IsStatusNotifierHostRegistered") = 2
    /\ w_items["kde"] = {}


\* C19: a NameOwnerChanged with a non-empty new owner whose name is the watcher
\* name of variant V makes the host send exactly RegisterStatusNotifierHost
\* with its own host name of V and then the Get of
\* RegisteredStatusNotifierItems of V, nothing for the other variant; and an
\* Ok reply to that Get passes every identifier, in order, to
\* handle_new_item, so that each identifier that parses and was unknown is
\* afterwards an item of variant V with status New.
C19_WatcherDiscovery ==
    /\ [](/\ (h_last.op = "name_owner_changed" /\ h_last.new_owner # <<>>) =>
               \A v \in Variants : h_last.name = WatcherName(v) =>
                   h_emit = <<Emit("call_no_reply", v, "RegisterStatusNotifierHost",
                                   HostName(v)),
                              Emit("call", v, "Get", <<"RegisteredStatusNotifierItems">>)>>
          /\ (h_last.op = "get_reply" /\ h_last.ok) => h_last.fed = h_last.ids)
    /\ [][\A v \in Variants :
            (h_gets'[v] = h_gets[v] - 1 /\ h_last'.ok) =>
                \A id \in Range(h_last'.ids) :
                    (/\ h_items[id] = 0
                     /\ ValidBusName(Destination(id))
                     /\ ValidPath(ItemPath(id))) =>
                        /\ h_items'[id] # 0
                        /\ it_variant'[h_items'[id]] = v
                        /\ it_status'[h_items'[id]] = "New"]_vars

\* A Get reply of the kde watcher with two identifiers has made two items,
\* while a Get sent on a NameOwnerChanged of the fdo watcher is outstanding.
C19_Witness ==
    /\ h_last.op = "get_reply" /\ h_last.ok /\ h_last.v = "kde"
    /\ Len(h_last.ids) = 2 /\ h_last.ids[1] # h_last.ids[2]
    /\ \A id \in Range(h_last.ids) : h_items[id] # 0 /\ it_status[h_items[id]] = "New"
    /\ h_gets["fdo"] = MaxGets

\* C20: an item that handle_removed_item set to Removed has the status Removed
\* in every later state, also after its spawned task has ended.
C20_RemovedTerminal ==
    \A o \in it_removed : it_status[o] = "Removed"

\* C21: once handle_removed_item has returned for an item, no callback about
\* that item is made any more: Host.callback, property_changed and
\* menu_changed are never made for a removed item, removed() is made at most
\* once, and the removed item has no owner that could be told.
C21_NoCallbackAfterRemoval ==
    /\ it_late = {}
    /\ \A o \in ItemObjs : it_removed_cb[o] <= 1
    /\ \A o \in it_removed : ~it_owner[o]

\* C21 happens: the re-fetch task of a change signal ends for an item that
\* was announced and then removed while the task waited for its Gets.
C21_Witness ==
    /\ h_last.op = "refetch_done"
    /\ h_last.o \in it_removed
    /\ it_removed_cb[h_last.o] = 1
    /\ it_announced[h_last.o] = 1

\* C22: Host.callback is called at most once per item, and in the step in
\* which the item's task ends while the status is New, after which the
\* status is Announced; if that step stores a Menu, menu_changed with the
\* first tree is made in the same step behind Host.callback, and no other
\* menu_changed of the item comes before it; if the task ends with a status
\* that is not New, the step makes no callback.
C22_Announcement ==
    /\ [](\A o \in ItemObjs : it_announced[o] <= 1 /\ it_first_menu[o] # "other")
    /\ [][\A o \in ItemObjs :
            LET ends == it_task[o] # "done" /\ it_task'[o] = "done"
            IN /\ it_announced'[o] # it_announced[o] =>
                    ends /\ it_status[o] = "New" /\ it_status'[o] = "Announced"
               /\ ends /\ it_status[o] = "New" =>
                    /\ it_announced'[o] = it_announced[o] + 1
                    /\ "new_item" \in h_last'.cbs
                    /\ it_menu'[o].open =>
                         /\ "menu_changed" \in h_last'.cbs
                         /\ it_first_menu'[o] = "initial"
               /\ ends /\ it_status[o] # "New" =>
                    /\ h_last'.cbs = {}
                    /\ it_announced'[o] = it_announced[o]
                    /\ it_first_menu'[o] = it_first_menu[o]
                    /\ it_owner'[o] = it_owner[o]]_vars

\* C22 happens: an item was announced with its first tree, and a later
\* refresh of its layout made the next menu_changed.
C22_Witness ==
    /\ h_last.op = "refresh_reply"
    /\ "menu_changed" \in h_last.cbs
    /\ it_announced[h_last.o] = 1
    /\ it_first_menu[h_last.o] = "initial"

\* C23: after handle_removed_item has handled the unregistration of an item,
\* in every later state the item is not in the tracker, holds none of its six
\* signal handlers and no Menu (so neither the two menu signal handlers nor a
\* GetLayout of its layout_updates), and removed() was called once if the
\* item had been announced and never otherwise; also when the removal came
\* while the first fetch or the first GetLayout was outstanding.
C23_RemovalComplete ==
    \A o \in it_removed :
        /\ \A id \in ItemIds : h_items[id] # o
        /\ it_handlers[o] = 0
        /\ ~it_menu[o].open
        /\ MenuCalls(o) = {}
        /\ it_removed_cb[o] = it_announced[o]

\* C24: the step that writes the results of the first fetch leaves None in
\* every field whose Get failed and a value in the others; is_menu is false
\* if its Get failed; whatever failed, the step that ends the task of an item
\* whose status is New announces it, once; and if the Menu Get failed or the
\* first GetLayout failed, that step stores no Menu and makes no menu_changed.
C24_FetchErrors ==
    /\ [](\A o \in ItemObjs : it_announced[o] <= 1)
    /\ [][\A o \in ItemObjs :
            LET ends == it_task[o] # "done" /\ it_task'[o] = "done"
            IN /\ it_task[o] = "props" /\ it_task'[o] = "is_menu" =>
                    \A f \in Range(SnapFields) :
                        it_props'[o][f] = IF f \in it_failed'[o] THEN "none" ELSE "v0"
               /\ it_task[o] = "is_menu" /\ it_task'[o] = "menu"
                     /\ "is_menu" \in it_failed'[o] =>
                    it_props'[o]["is_menu"] = "false"
               /\ ends /\ it_status[o] = "New" =>
                    /\ it_announced[o] = 0 /\ it_announced'[o] = 1
                    /\ "new_item" \in h_last'.cbs
               /\ ends /\ it_menu_res'[o] \in {"missing", "failed"} =>
                    /\ ~it_menu'[o].open
                    /\ "menu_changed" \notin h_last'.cbs
                    /\ it_first_menu'[o] = "none"]_vars

\* C24 happens: every Get of the first fetch failed, the Menu Get gave a path
\* and the first GetLayout failed, and the item was announced without a menu.
C24_Witness ==
    /\ h_last.op = "layout_reply" /\ ~h_last.ok
    /\ it_failed[h_last.o] = Range(SnapFields) \cup {"is_menu"}
    /\ it_menu_res[h_last.o] = "failed"
    /\ it_announced[h_last.o] = 1
    /\ h_last.cbs = {"new_item"}
    /\ \A f \in Range(SnapFields) : it_props[h_last.o][f] = "none"

\* C25: the task of a change signal sends a Get for each property listed
\* for its signal and for no other; the step that ends it writes the fields of
\* those properties and leaves every other field of the snapshot, and the
\* snapshot of every other item, unchanged; and it then tells the owner, if
\* the item has one, of the MutableProperty of the signal and of nothing else.
C25_Refetch ==
    [][\A t \in RefetchIds :
          LET o == rf_tasks[t].o
              sig == rf_tasks[t].sig
          IN /\ rf_tasks[t].pos = "spawned" /\ rf_tasks'[t].pos = "await" =>
                  /\ {h_emit'[i].arg[1] : i \in DOMAIN h_emit'} = SignalFields(sig)
                  /\ Len(h_emit') = Cardinality(SignalFields(sig))
                  /\ \A i \in DOMAIN h_emit' :
                        h_emit'[i].kind = "call" /\ h_emit'[i].member = "Get"
                  /\ it_props' = it_props
             /\ rf_tasks[t].pos = "await" /\ rf_tasks'[t].pos = "none" =>
                  /\ \A f \in DOMAIN it_props[o] :
                        IF f \in SignalFields(sig)
                        THEN it_props'[o][f] \in {"none", "v1"}
                        ELSE it_props'[o][f] = it_props[o][f]
                  /\ \A p \in ItemObjs \ {o} : it_props'[p] = it_props[p]
                  /\ h_last'.o = o
                  /\ IF it_owner[o]
                     THEN h_last'.cbs = {"property_changed"} /\ h_last'.prop = Mutable(sig)
                     ELSE h_last'.cbs = {} /\ h_last'.prop = ""]_vars

\* C25 happens: NewIcon was handled for an announced item; the pixmap was
\* fetched, the Get of the icon name failed, the title is that of the first
\* fetch, and the owner was told of Icon.
C25_Witness ==
    /\ h_last.op = "refetch_done" /\ h_last.sig = "NewIcon"
    /\ h_last.cbs = {"property_changed"} /\ h_last.prop = "Icon"
    /\ it_props[h_last.o]["icon"] = "v1"
    /\ it_props[h_last.o]["icon_name"] = "none"
    /\ it_props[h_last.o]["title"] = "v0"

\* C26: an open_menu call on an item with a Menu whose replies have all
\* arrived (the reply to AboutToShow and, if that was true, the reply to the
\* GetLayout that follows) has had its callback invoked exactly once.
C26_CallbackOnce ==
    \A c \in OpenIds : om_state[c] = "finished" => om_cb[c] = 1

\* C27: the step that handles ItemsPropertiesUpdated for a Menu whose
\* layout_updates is not empty leaves the tree as it is, makes no
\* menu_changed, and sends exactly one GetLayout(0, -1, []) whose Call joins
\* layout_updates; with layout_updates empty the step sends nothing and
\* leaves layout_updates empty, and only such a step changes the tree.
C27_PropertiesDeferred ==
    [][\A o \in ItemObjs :
          h_last'.op = "properties_updated" /\ h_last'.o = o =>
             IF it_menu[o].inflight # {}
             THEN /\ it_menu'[o].tree = it_menu[o].tree
                  /\ h_last'.cbs = {}
                  /\ it_first_menu' = it_first_menu
                  /\ h_emit' = <<Emit("call", it_variant[o], "GetLayout", <<"0">>)>>
                  /\ \E k \in c_calls' \ c_calls :
                        /\ c_calls' = c_calls \cup {k}
                        /\ k.kind = "refresh" /\ k.o = o /\ k.menu_id = 0 /\ k.cb = 0
                        /\ k.id \notin it_menu[o].inflight
                        /\ it_menu'[o].inflight = it_menu[o].inflight \cup {k.id}
             ELSE /\ h_emit' = <<>>
                  /\ c_calls' = c_calls
                  /\ it_menu'[o].inflight = {}
                  /\ (h_last'.cbs # {}) => it_menu'[o].tree # it_menu[o].tree]_vars

\* C27 happens: ItemsPropertiesUpdated came while a GetLayout was in flight,
\* and a second one is in flight now.
C27_Witness ==
    /\ h_last.op = "properties_updated" /\ h_last.ok
    /\ Cardinality(it_menu[h_last.o].inflight) = 2
    /\ Cardinality(MenuCalls(h_last.o)) = 2

\* C27, the other case happens: with nothing in flight the diff was merged
\* and the owner told of the delta.
C27_WitnessDirect ==
    /\ h_last.op = "properties_updated" /\ ~h_last.ok
    /\ h_last.cbs = {"menu_changed"}
    /\ it_menu[h_last.o].inflight = {}


\* The node with this menu id in a tree or a layout value (first in depth-first
\* order), as an Option.
RECURSIVE Find(_, _)
RECURSIVE FindIn(_, _)
FindIn(children, menu_id) ==
    IF children = <<>> THEN None
    ELSE IF Find(Head(children), menu_id) # None
         THEN Find(Head(children), menu_id)
         ELSE FindIn(Tail(children), menu_id)
Find(tree, menu_id) ==
    IF tree.menu_id = menu_id THEN Some(tree) ELSE FindIn(tree.children, menu_id)

\* All SniMenuDelta records inside a delta, the delta itself included.
RECURSIVE DeltaNodes(_)
DeltaNodes(delta) ==
    {delta} \cup
    (IF delta.children = None THEN {}
     ELSE UNION {IF e.delta = None THEN {} ELSE DeltaNodes(e.delta[1]) :
                 e \in Range(delta.children[1])})

\* The nodes of the last delta that report a children diff and belong to the
\* reply, that is, to the merged subtree and not to the path leading to it.
DiffNodes ==
    IF m_delta = None THEN {}
    ELSE {d \in DeltaNodes(m_delta[1]) :
            d.children # None /\ Find(ParseTree(m_resp), d.menu_id) # None}

\* The children a node had in the mirror before the last merge, and has in
\* the reply.
OldChildren(menu_id) ==
    IF Find(m_prev, menu_id) = None THEN <<>> ELSE Find(m_prev, menu_id)[1].children
NewChildren(menu_id) == Find(ParseTree(m_resp), menu_id)[1].children

\* Two trees with the same nodes, properties and children, in any order.
RECURSIVE SameUnordered(_, _)
SameUnordered(a, b) ==
    /\ a.menu_id = b.menu_id /\ a.properties = b.properties
    /\ Range(Keys(a.children)) = Range(Keys(b.children))
    /\ \A i \in DOMAIN a.children :
          SameUnordered(a.children[i],
                        b.children[IndexOf(b.children, a.children[i].menu_id)])

\* C28: the first merge of a reply that differs from the node it is for
\* returns a delta; the second merge of the same reply returns none and
\* leaves the mirror as it is.
C28_Idempotent ==
    /\ (m_count = 1 /\ Find(m_prev, m_resp.menu_id) # None
                    /\ Find(m_prev, m_resp.menu_id)[1] # ParseTree(m_resp))
          => m_delta # None
    /\ m_count = 2 => (m_delta = None /\ m_tree = m_prev)

\* C29 (as claimed): in a children diff a child new to the mirror has None, a
\* child that existed and changed has Some delta, a removed child is absent.
C29_NewChildNone ==
    \A d \in DiffNodes :
        LET diff == d.children[1]
            old == OldChildren(d.menu_id)
            new == NewChildren(d.menu_id)
        IN /\ \A i \in DOMAIN new :
                 LET k == new[i].menu_id
                     e == diff[IndexOf(diff, k)]
                 IN /\ IndexOf(diff, k) # 0
                    /\ IndexOf(old, k) = 0 => e.delta = None
                    /\ (IndexOf(old, k) # 0 /\ ~SameUnordered(old[IndexOf(old, k)], new[i]))
                          => e.delta # None
           /\ \A i \in DOMAIN old :
                 IndexOf(new, old[i].menu_id) = 0 => IndexOf(diff, old[i].menu_id) = 0

\* C29 (amended): in a children diff a child new to the mirror has Some delta,
\* that of its full subtree; a child that existed has Some delta if it changed
\* and None if it did not; a removed child is absent.
C29_NewChildFull ==
    \A d \in DiffNodes :
        LET diff == d.children[1]
            old == OldChildren(d.menu_id)
            new == NewChildren(d.menu_id)
        IN /\ \A i \in DOMAIN new :
                 LET k == new[i].menu_id
                     e == diff[IndexOf(diff, k)]
                 IN /\ IndexOf(diff, k) # 0
                    /\ IndexOf(old, k) = 0 => e.delta = Some(FullDelta(new[i]))
                    /\ IndexOf(old, k) # 0 =>
                          (e.delta = None <=> SameUnordered(old[IndexOf(old, k)], new[i]))
           /\ \A i \in DOMAIN old :
                 IndexOf(new, old[i].menu_id) = 0 => IndexOf(diff, old[i].menu_id) = 0

\* A merge at the root reported a diff with a new child, a child that did not
\* change, and has dropped nothing else.
C29_Witness ==
    /\ m_count = 1 /\ m_delta # None /\ m_resp.menu_id = 0
    /\ m_delta[1].children # None
    /\ \E e, f \in Range(m_delta[1].children[1]) :
          /\ e.delta = None /\ IndexOf(m_prev.children, e.menu_id) # 0
          /\ f.delta # None /\ IndexOf(m_prev.children, f.menu_id) = 0

\* The menu ids of the children of a layout value that decode, each once, in
\* the order of their first occurrence.
RECURSIVE ReplyIds(_, _)
ReplyIds(raw, ids) ==
    IF raw = <<>> THEN ids
    ELSE ReplyIds(Tail(raw),
                  IF Head(raw).decodes /\ Head(raw).menu_id \notin Range(ids)
                  THEN Append(ids, Head(raw).menu_id) ELSE ids)

\* C30: the keys of a children diff reported for a node of the reply are the
\* menu ids of that node's children in the reply, in the reply's order.
C30_DiffOrder ==
    \A d \in DiffNodes :
        Keys(d.children[1]) = ReplyIds(Find(m_resp, d.menu_id)[1].children, <<>>)

\* A merge reported a diff for a node whose two children came in the other
\* order than the mirror had them, one of them changed.
C30_Witness ==
    /\ m_count = 1 /\ m_delta # None /\ m_resp.menu_id = 0
    /\ m_delta[1].children # None
    /\ Len(m_prev.children) = 2
    /\ Keys(m_delta[1].children[1]) = <<m_prev.children[2].menu_id, m_prev.children[1].menu_id>>

\* C31 (as claimed): after a reply for a node of the mirror was merged, the
\* mirror's subtree at that node equals the reply's subtree: the same menu
\* ids, the decoded properties, and the children in the reply's order.
C31_SubtreeEqualsResponse ==
    (m_count >= 1 /\ Find(m_prev, m_resp.menu_id) # None)
        => Find(m_tree, m_resp.menu_id) = Some(ParseTree(m_resp))

\* What the merge does establish: the subtree has the reply's nodes with the
\* reply's properties, the children of a node in some order.
C31_SubtreeSameUnordered ==
    (m_count >= 1 /\ Find(m_prev, m_resp.menu_id) # None)
        => SameUnordered(Find(m_tree, m_resp.menu_id)[1], ParseTree(m_resp))

\* C32: LayoutUpdated(revision, parent) for an open session sends
\* GetLayout(parent, -1, []) and stores the revision if and only if the
\* revision is greater than the stored one; otherwise the session (revision,
\* tree, in-flight table) stays as it is and nothing is sent. The stored
\* revision of a session never decreases.
C32_LayoutUpdated ==
    [][/\ \A o \in ItemObjs, revision \in 0..MaxRevision + 1 :
             LayoutUpdated(o, revision, 0) =>
                IF revision > it_menu[o].revision
                THEN /\ it_menu'[o].revision = revision
                     /\ h_emit' = <<Emit("call", it_variant[o], "GetLayout", MenuIdArg(0))>>
                     /\ it_menu'[o].inflight = it_menu[o].inflight \cup {it_menu'[o].next}
                     /\ it_menu'[o].next \notin it_menu[o].inflight
                     /\ it_menu'[o].tree = it_menu[o].tree
                ELSE /\ it_menu' = it_menu
                     /\ c_calls' = c_calls
                     /\ h_emit' = <<>>
       /\ \A o \in ItemObjs :
             (it_menu[o].open /\ it_menu'[o].open) =>
                it_menu'[o].revision >= it_menu[o].revision]_vars

\* C32 happens: a session that stored a newer revision and has the refresh
\* for it in flight got a LayoutUpdated with the same revision, and sent
\* nothing.
C32_Witness ==
    /\ h_last.op = "layout_updated" /\ h_emit = <<>>
    /\ it_menu[h_last.o].open
    /\ it_owner[h_last.o]
    /\ it_menu[h_last.o].revision = MaxRevision + 1
    /\ it_menu[h_last.o].inflight # {}

\* C33: the in-flight table of a session holds exactly the keys of the
\* GetLayout queries of update_layout whose reply (success or error) has not
\* been processed; a query adds a key that was never used before, a reply
\* removes its own key and no other.
C33_Inflight ==
    /\ [](\A o \in ItemObjs :
            /\ it_menu[o].inflight = {k.id : k \in MenuCalls(o)}
            /\ \A id \in it_menu[o].inflight : id <= it_menu[o].next)
    /\ [][\A o \in ItemObjs :
            LET after == {k \in c_calls' : k.kind = "refresh" /\ k.o = o}
            IN (it_menu[o].open /\ it_menu'[o].open
                  /\ it_menu'[o].inflight # it_menu[o].inflight) =>
                   \/ /\ it_menu'[o].next = it_menu[o].next + 1
                      /\ it_menu'[o].inflight =
                            it_menu[o].inflight \cup {it_menu'[o].next}
                      /\ MenuCalls(o) \subseteq after
                   \/ \E k \in MenuCalls(o) :
                         /\ it_menu'[o].next = it_menu[o].next
                         /\ it_menu'[o].inflight = it_menu[o].inflight \ {k.id}
                         /\ after = MenuCalls(o) \ {k}
                         /\ h_last'.op = "refresh_reply"]_vars

\* C33 happens: two refreshes overlapped; the reply to the first was
\* processed, with an error or a layout, and the table holds the key of the
\* second alone.
C33_Witness ==
    /\ h_last.op = "refresh_reply"
    /\ it_menu[h_last.o].open /\ it_owner[h_last.o]
    /\ it_menu[h_last.o].next = 2
    /\ it_menu[h_last.o].inflight = {2}

\* The reply to the second was processed as well: the table is empty.
C33_WitnessEmpty ==
    /\ h_last.op = "refresh_reply"
    /\ it_menu[h_last.o].open /\ it_owner[h_last.o]
    /\ it_menu[h_last.o].next = 2
    /\ it_menu[h_last.o].inflight = {}

\* What the two lists of the last ItemsPropertiesUpdated say of a menu id:
\* the values changed (None if the list has no entry) and the names removed.
ChangedOf(menu_id) ==
    IF \E i \in DOMAIN m_diff.changed : m_diff.changed[i].menu_id = menu_id
    THEN (CHOOSE c \in Range(m_diff.changed) : c.menu_id = menu_id).properties
    ELSE DiffProps(None, None, None)
RemovedOf(menu_id) ==
    UNION {r.keys : r \in {x \in Range(m_diff.removed) : x.menu_id = menu_id}}

\* The text of a label value, "_" taken out as the label loop does.
LabelText(s) == DecodeLabel(s, <<>>, FALSE, None).label

C35_LabelAlone ==
    /\ m_count = 0 =>
          \A id \in {0, 1} :
             LET raw == Find(m_resp, id)[1].properties
                 new == Find(m_tree, id)[1].properties
             IN raw.label # None =>
                   [label |-> new.label, access_key |-> new.access_key]
                      = DecodeLabel(raw.label[1], <<>>, FALSE, None)
    /\ m_count >= 1 =>
          \A id \in {0, 1} :
             LET new == Find(m_tree, id)[1].properties
                 ch == ChangedOf(id)
             IN ("label" \notin RemovedOf(id) /\ ch.label # None
                    /\ ch.label[1].ty = "str") =>
                   [label |-> new.label, access_key |-> new.access_key]
                      = DecodeLabel(ch.label[1].s, <<>>, FALSE, None)

\* What holds of a label decoded from a property diff: the text is that of
\* the value, and the access key is that of the value if the value marks
\* one, else the access key the node had before.
C35_LabelKeepsKey ==
    m_count >= 1 =>
        \A id \in {0, 1} :
           LET old == Find(m_prev, id)[1].properties
               new == Find(m_tree, id)[1].properties
               ch == ChangedOf(id)
               alone == DecodeLabel(ch.label[1].s, <<>>, FALSE, None)
           IN ("label" \notin RemovedOf(id) /\ ch.label # None
                  /\ ch.label[1].ty = "str") =>
                 /\ new.label = alone.label
                 /\ new.access_key = IF alone.access_key # None THEN alone.access_key
                                     ELSE old.access_key

\* The first and the last child of a layout value's children that decodes
\* and has this menu id.
FirstRaw(raw, menu_id) ==
    raw[CHOOSE i \in DOMAIN raw :
          /\ raw[i].decodes /\ raw[i].menu_id = menu_id
          /\ \A j \in 1..(i - 1) : ~(raw[j].decodes /\ raw[j].menu_id = menu_id)]
LastRaw(raw, menu_id) ==
    raw[CHOOSE i \in DOMAIN raw :
          /\ raw[i].decodes /\ raw[i].menu_id = menu_id
          /\ \A j \in (i + 1)..Len(raw) : ~(raw[j].decodes /\ raw[j].menu_id = menu_id)]

\* The menu ids of a sequence of trees are all different.
UniqueIds(children) ==
    \A i, j \in DOMAIN children : children[i].menu_id = children[j].menu_id => i = j

\* C36 (as claimed): the children of a node of the mirror have different menu
\* ids; of the children of a reply that have the same menu id the first is
\* kept, with its properties and its subtree, once the reply is merged.
C36_FirstKept ==
    /\ UniqueIds(m_tree.children)
    /\ (m_count >= 1 /\ Find(m_prev, m_resp.menu_id) # None) =>
          \A c \in Range(ParseTree(m_resp).children) :
             SameUnordered(Find(m_tree, c.menu_id)[1],
                           ParseTree(FirstRaw(m_resp.children, c.menu_id)))

\* What holds: the ids of siblings are different, and of the children of a
\* reply with the same menu id the last is kept, at the place of the first.
C36_LastKept ==
    /\ UniqueIds(m_tree.children)
    /\ Keys(ParseTree(m_resp).children) = ReplyIds(m_resp.children, <<>>)
    /\ \A c \in Range(ParseTree(m_resp).children) :
          c = ParseTree(LastRaw(m_resp.children, c.menu_id))
    /\ (m_count >= 1 /\ Find(m_prev, m_resp.menu_id) # None) =>
          \A c \in Range(ParseTree(m_resp).children) :
             SameUnordered(Find(m_tree, c.menu_id)[1],
                           ParseTree(LastRaw(m_resp.children, c.menu_id)))

\* The child list of a node in the renderer's menu.
RenderChildren(menu_id) ==
    IF r_items[menu_id].submenu = None THEN <<>> ELSE r_items[menu_id].submenu[1]

\* C37 (as claimed): after every delta was applied in order, each node of
\* the mirror is in the renderer's menu with its children in the order of the
\* last merged GetLayout reply that had the node.
C37_RendererInStep ==
    \A id \in MenuIds :
        (Find(m_tree, id) # None /\ r_expect[id] # None) =>
            /\ r_items[id].present
            /\ RenderChildren(id) = r_expect[id][1]

\* What holds in its place: each node of the mirror is in the renderer's menu
\* with the children the mirror has, in some order.
C37_RendererSameSet ==
    \A id \in MenuIds :
        Find(m_tree, id) # None =>
            /\ r_items[id].present
            /\ Range(RenderChildren(id)) = Range(Keys(Find(m_tree, id)[1].children))

\* C38 (as claimed): when the first fetch of an item and a re-fetch of one of
\* its properties overlap, the Gets of the re-fetch sent after those of the
\* first fetch, then once both have written the snapshot the field holds what
\* the re-fetch wrote (its value, or None if its Get failed), not the value of
\* the first fetch.
C38_NoStaleValue ==
    \A x \in it_refetched :
        it_task[x[1]] \notin {"spawned", "props"} => it_props[x[1]][x[2]] # "v0"

\* The bus-name part of a KDE item string: the text before the first "/".
RECURSIVE BusNamePart(_)
BusNamePart(item) ==
    IF item = <<>> \/ Head(item) = "/" THEN <<>>
    ELSE <<Head(item)>> \o BusNamePart(Tail(item))

\* C39 (as claimed): when a bus name loses its owner, a KDE item whose
\* bus-name part is another name stays registered, and no
\* StatusNotifierItemUnregistered is sent for it.
C39_OtherNamesStay ==
    [][(w_last'.op = "name_owner_changed" /\ w_last'.sender = <<>>) =>
          \A item \in w_items["kde"] :
             BusNamePart(item) # w_last'.arg =>
                /\ item \in w_items'["kde"]
                /\ Emitted("signal", "kde", "StatusNotifierItemUnregistered", item)' = 0]_vars

\* C40 (as claimed): every LayoutUpdated the remote menu emits after it sent
\* its reply to the first GetLayout reaches the session's handler: none is
\* dropped for lack of a match rule.
C40_NoneMissed == b_lost = {}

\* The session is open with the revision of the reply, its match rule has
\* reached the bus and nothing is in flight, and the remote menu is at a newer
\* revision all the same.
C40_StaleSession ==
    \E o \in ItemObjs :
        /\ it_menu[o].open /\ b_match /\ it_menu[o].inflight = {}
        /\ \A r \in b_routed : r <= it_menu[o].revision
        /\ it_menu[o].revision < b_rev

====
